---- MODULE Spec2Model ----
(***************************************************************************)
(* Animals moving on a grid: the three variants of the simulation step.    *)
(*   functional_simulation.py  recursive-functional, grid is a dict        *)
(*   imperative_simulation.py  mutable grid of Animal objects              *)
(*   functional.py             pure-functional world of animal records     *)
(* A behaviour runs one variant, chosen in Init.  A simulation step is a   *)
(* loop over the animals alive at its start; the loop position is state,   *)
(* and one action is one iteration (one animal's whole turn).              *)
(***************************************************************************)
EXTENDS Integers, Sequences, FiniteSets, TLC

VARIABLES variant, fsim, imp, fun

vars == <<variant, fsim, imp, fun>>

(***************************************************************************)
(* Bounds of the model.  The grids of the source are 10 x 10; the model    *)
(* runs the same code on a small torus / square.                           *)
(***************************************************************************)
ROWS == 3
COLS == 2
NumSeeds == 2
ObstacleCount == 1
FoodCount == 2
MaxStepsFsim == 4
MaxStepsImp == 3
MaxStepsFun == 3
NumBabyIds == 1
GRID_SIZE == 2
INITIAL_ANIMALS == 2
MaxObstacles == 1
MaxSpawn == 1
LoopSteps == 2

MaxEnergy == 12

\* ------------------------------------------------------------------------
\* Shared helpers
\* ------------------------------------------------------------------------

Cells == (0 .. ROWS - 1) \X (0 .. COLS - 1)

Min(a, b) == IF a < b THEN a ELSE b

\* Python's None
None == [kind |-> "None"]

\* row-major rank of a cell, and a set of cells as a row-major list
RowMajor(pos) == pos[1] * COLS + pos[2]

RECURSIVE CellList(_)
CellList(S) ==
    IF S = {} THEN << >>
    ELSE LET p == CHOOSE q \in S : \A o \in S : RowMajor(q) <= RowMajor(o)
         IN  <<p>> \o CellList(S \ {p})

\* ------------------------------------------------------------------------
\* functional_simulation.py
\* ------------------------------------------------------------------------

DIRECTIONS == << <<0, 1>>, <<0, -1>>, <<1, 0>>, <<-1, 0>> >>

DIRECTIONS_WITH_STAY == DIRECTIONS \o << <<0, 0>> >>

\* grid contents: an animal dict, or one of the markers '#' and 'F'
Obstacle == [kind |-> "#"]

Food == [kind |-> "F"]

Rabbit(id, energy, age) ==
    [kind |-> "animal", id |-> id, energy |-> energy, age |-> age, type |-> "Rabbit"]

\* isinstance(content, dict) and 'id' in content
IsAnimal(content) == content.kind = "animal"

\* A Grid is a dict keyed by position: the list of its (key, value) items in
\* insertion order.
Item(pos, val) == [pos |-> pos, val |-> val]

HasKey(grid, pos) == \E i \in 1 .. Len(grid) : grid[i].pos = pos

\* grid.get(pos)
DictGet(grid, pos) ==
    IF HasKey(grid, pos)
    THEN grid[CHOOSE i \in 1 .. Len(grid) : grid[i].pos = pos].val
    ELSE None

\* fault: the item is added without replacing the one of the same key
DictAdd(grid, pos, val) == Append(grid, Item(pos, val))

\* {**grid, pos: val}
DictSet(grid, pos, val) ==
    IF HasKey(grid, pos)
    THEN [i \in 1 .. Len(grid) |->
            IF grid[i].pos = pos THEN Item(pos, val) ELSE grid[i]]
    ELSE Append(grid, Item(pos, val))

ZeroStats ==
    [deaths_starvation |-> 0, births |-> 0, food_eaten |-> 0,
     obstacle_encounters |-> 0, conflicts |-> 0]

\* fault: the position is clamped at the border instead of wrapping
move_safe_clamped(pos, direction) ==
    <<IF pos[1] + direction[1] < 0 THEN 0
      ELSE IF pos[1] + direction[1] >= ROWS THEN ROWS - 1
      ELSE pos[1] + direction[1],
      IF pos[2] + direction[2] < 0 THEN 0
      ELSE IF pos[2] + direction[2] >= COLS THEN COLS - 1
      ELSE pos[2] + direction[2]>>

move_safe(pos, direction) ==
    <<(pos[1] + direction[1]) % ROWS, (pos[2] + direction[2]) % COLS>>

merge_stats(stats1, stats2) ==
    [key \in DOMAIN stats1 |-> stats1[key] + stats2[key]]

copy_grid_without(grid, skip_positions) ==
    SelectSeq(grid, LAMBDA item : item.pos \notin skip_positions)

collect_animals(grid) == SelectSeq(grid, LAMBDA item : IsAnimal(item.val))

count_animals(grid) == Len(collect_animals(grid))

generate_neighbors(origin) ==
    [idx \in 1 .. Len(DIRECTIONS) |-> move_safe(origin, DIRECTIONS[idx])]

\* fault: the first neighbour is taken without looking whether it is empty
find_first_empty_unchecked(spots, grid, idx) ==
    IF idx = Len(spots) + 1 THEN None ELSE [kind |-> "pos", pos |-> spots[idx]]

RECURSIVE find_first_empty(_, _, _)
find_first_empty(spots, grid, idx) ==
    IF idx = Len(spots) + 1 THEN None
    ELSE IF ~HasKey(grid, spots[idx]) THEN [kind |-> "pos", pos |-> spots[idx]]
    ELSE find_first_empty(spots, grid, idx + 1)

\* fault: the animals are processed in the order of the dict
unsorted(items) == items

\* sorted(items, key=id): Python's sort is stable
RECURSIVE SortedById(_)
SortedById(items) ==
    IF items = << >> THEN << >>
    ELSE LET i == CHOOSE j \in 1 .. Len(items) :
                     /\ \A k \in 1 .. Len(items) : items[j].val.id <= items[k].val.id
                     /\ \A k \in 1 .. (j - 1) : items[k].val.id # items[j].val.id
         IN  <<items[i]>> \o
             SortedById(SubSeq(items, 1, i - 1) \o SubSeq(items, i + 1, Len(items)))

\* fault: the baby is born with more energy than the parent gives up
make_baby_rich(baby_id, type) ==
    [kind |-> "animal", id |-> baby_id, energy |-> 8, age |-> 0, type |-> type]

\* the baby dict of a reproduction
make_baby(baby_id, type) ==
    [kind |-> "animal", id |-> baby_id, energy |-> 3, age |-> 0, type |-> type]

\* fault: the parent pays the baby's energy instead of being halved
split_parent_pays_baby(updated_animal) ==
    [updated_animal EXCEPT !.energy = updated_animal.energy - 3]

\* the parent after a reproduction: {**updated_animal, 'energy': energy // 2}
split_parent(updated_animal) ==
    [updated_animal EXCEPT !.energy = updated_animal.energy \div 2]

\* One animal's turn.  direction, gate and baby_id are the turn's random draws:
\* random.choice(DIRECTIONS_WITH_STAY), random.random() < 0.25 and
\* random.randint(100, 999).  The result carries the new grid, the turn's
\* statistics (final_grid, turn_stats) and the locals of the call.
pure_process_animal_turn(grid, pos, animal, direction, gate, baby_id) ==
    IF animal.energy <= 0
    THEN [grid |-> grid, final_grid |-> copy_grid_without(grid, {pos}),
          turn_stats |-> [ZeroStats EXCEPT !.deaths_starvation = 1],
          branch |-> "death", pos |-> pos, animal |-> animal,
          direction |-> <<0, 0>>, new_pos |-> pos, target_content |-> None,
          updated_animal |-> animal, final_pos |-> pos, parent |-> animal,
          empty_spot |-> None, baby |-> None, gate |-> "not drawn"]
    ELSE
    LET energy_cost == 2
        aged == [animal EXCEPT !.energy = @ - energy_cost, !.age = @ + 1]
        new_pos == move_safe(pos, direction)
        target_content == DictGet(grid, new_pos)
        skip_positions == {pos} \cup (IF target_content = Food THEN {new_pos} ELSE {})
        grid_after_move == copy_grid_without(grid, skip_positions)
        branch == IF target_content = Obstacle THEN "obstacle"
                  ELSE IF IsAnimal(target_content) THEN "conflict"
                  ELSE IF target_content = Food THEN "food"
                  ELSE "empty"
        updated_animal ==
            CASE branch = "obstacle" -> [aged EXCEPT !.energy = @ - 1]
              [] branch = "conflict" -> [aged EXCEPT !.energy = @ - 1]
              [] branch = "food"     -> [aged EXCEPT !.energy = @ + 5]
              [] OTHER               -> aged
        move_stats ==
            CASE branch = "obstacle" -> [ZeroStats EXCEPT !.obstacle_encounters = 1]
              [] branch = "conflict" -> [ZeroStats EXCEPT !.conflicts = 1]
              [] branch = "food"     -> [ZeroStats EXCEPT !.food_eaten = 1]
              [] OTHER               -> ZeroStats
        final_pos == IF branch \in {"obstacle", "conflict"} THEN pos ELSE new_pos
        moved_grid == DictSet(grid_after_move, final_pos, updated_animal)
        reproduces == updated_animal.energy > 5 /\ updated_animal.age > 2 /\ gate
        empty_spot == IF reproduces
                      THEN find_first_empty(generate_neighbors(final_pos), moved_grid, 1)
                      ELSE None
        born == empty_spot # None
        baby == make_baby(baby_id, animal.type)
        parent == IF born THEN split_parent(updated_animal) ELSE updated_animal
        drawn == IF updated_animal.energy > 5 /\ updated_animal.age > 2
                 THEN (IF gate THEN "pass" ELSE "fail")
                 ELSE "not drawn"
    IN  [grid |-> grid,
         final_grid |->
             IF born
             THEN DictSet(DictSet(moved_grid, empty_spot.pos, baby), final_pos, parent)
             ELSE moved_grid,
         turn_stats |-> IF born THEN [move_stats EXCEPT !.births = 1] ELSE move_stats,
         branch |-> branch, pos |-> pos, animal |-> animal,
         direction |-> direction, new_pos |-> new_pos,
         target_content |-> target_content,
         updated_animal |-> updated_animal, final_pos |-> final_pos,
         parent |-> parent, empty_spot |-> empty_spot,
         baby |-> IF born THEN baby ELSE None, gate |-> drawn]

\* the ids random.randint(100, 999) draws from, bounded
BabyIds == 100 .. (100 + NumBabyIds - 1)

\* The seed animals of initialize_grid (both grid variants): id and cell.
\* The seed cells (1,1), (3,4), (8,8) are taken modulo the model's grid, and
\* the model places the first NumSeeds of them.
SEEDS ==
    << [id |-> 10, pos |-> <<1 % ROWS, 1 % COLS>>],
       [id |-> 20, pos |-> <<3 % ROWS, 4 % COLS>>],
       [id |-> 30, pos |-> <<8 % ROWS, 8 % COLS>>] >>

RECURSIVE SeedGridOf(_)
SeedGridOf(n) ==
    IF n = 0 THEN << >>
    ELSE DictSet(SeedGridOf(n - 1), SEEDS[n].pos, Rabbit(SEEDS[n].id, 10, 0))

SeedGrid == SeedGridOf(Min(NumSeeds, Len(SEEDS)))

\* place_entities over a shuffled list of all cells: `remaining` cells not yet
\* in the grid receive the marker.  chosen is the set of cells the shuffle
\* puts first; they enter the dict in the order the shuffle lists them, here
\* row-major.
place_entities(chosen, grid, marker) ==
    grid \o [i \in 1 .. Cardinality(chosen) |-> Item(CellList(chosen)[i], marker)]

FreeCells(grid) == {pos \in Cells : ~HasKey(grid, pos)}

\* the grids initialize_grid can return: obstacle_count obstacles, then
\* food_count food items, as far as the shuffled cells last
InitialGrids ==
    LET free == FreeCells(SeedGrid)
        nobst == Min(ObstacleCount, Cardinality(free))
        nfood == Min(FoodCount, Cardinality(free) - nobst)
    IN  { place_entities(of[2], place_entities(of[1], SeedGrid, Obstacle), Food) :
            of \in { of \in (SUBSET free) \X (SUBSET free) :
                        /\ Cardinality(of[1]) = nobst
                        /\ Cardinality(of[2]) = nfood
                        /\ of[1] \cap of[2] = {} } }

NoTurn == [branch |-> "none"]

FsimInit(grid) ==
    [pc |-> "run_simulation", steps |-> MaxStepsFsim, current_grid |-> grid,
     initial_animals |-> << >>, remaining_animals |-> << >>,
     accumulated_grid |-> << >>, accumulated_stats |-> ZeroStats,
     turn |-> NoTurn, turns |-> << >>]

\* run_simulation calls sim_step: collect and sort the animals, start the
\* recursion with the current grid and zero statistics
sim_step ==
    /\ variant = "functional_simulation"
    /\ fsim.pc = "run_simulation"
    /\ fsim.steps > 0
    /\ LET initial_animals == SortedById(collect_animals(fsim.current_grid))
       IN  fsim' = [fsim EXCEPT !.pc = "recursive_processor",
                                !.initial_animals = initial_animals,
                                !.remaining_animals = initial_animals,
                                !.accumulated_grid = fsim.current_grid,
                                !.accumulated_stats = ZeroStats,
                                !.turn = NoTurn,
                                !.turns = << >>]
    /\ UNCHANGED <<variant, imp, fun>>

\* what the record of a call of sim_step keeps of each turn it has processed,
\* in the order of processing
TurnEntry(t) ==
    [id |-> t.animal.id, pos |-> t.pos, new_pos |-> t.new_pos,
     branch |-> t.branch, final_pos |-> t.final_pos]

\* the identity guard of recursive_processor
SameAnimalAt(grid, pos, animal) ==
    LET current_content == DictGet(grid, pos)
    IN  IsAnimal(current_content) /\ current_content.id = animal.id

\* one call of recursive_processor with work left: the head of the list takes
\* its turn if the grid still holds its id at its recorded cell
recursive_processor ==
    /\ variant = "functional_simulation"
    /\ fsim.pc = "recursive_processor"
    /\ fsim.remaining_animals # << >>
    /\ LET pos == Head(fsim.remaining_animals).pos
           animal == Head(fsim.remaining_animals).val
           rest == Tail(fsim.remaining_animals)
       IN  IF SameAnimalAt(fsim.accumulated_grid, pos, animal)
           THEN \E direction \in {DIRECTIONS_WITH_STAY[i] : i \in 1 .. 5},
                   gate \in BOOLEAN, baby_id \in BabyIds :
                   LET t == pure_process_animal_turn(fsim.accumulated_grid, pos, animal,
                                                     direction, gate, baby_id)
                   IN  fsim' = [fsim EXCEPT
                                  !.remaining_animals = rest,
                                  !.accumulated_grid = t.final_grid,
                                  !.accumulated_stats = merge_stats(@, t.turn_stats),
                                  !.turn = [t EXCEPT !.final_grid = << >>],
                                  !.turns = Append(@, TurnEntry(t))]
           ELSE fsim' = [fsim EXCEPT !.remaining_animals = rest,
                                     !.turn = [branch |-> "skipped", pos |-> pos,
                                               animal |-> animal]]
    /\ UNCHANGED <<variant, imp, fun>>

\* recursive_processor with no work left returns to run_simulation, which
\* stops when no animal is left and otherwise recurses with steps - 1
sim_step_return ==
    /\ variant = "functional_simulation"
    /\ fsim.pc = "recursive_processor"
    /\ fsim.remaining_animals = << >>
    /\ fsim' = [fsim EXCEPT
                  !.pc = IF count_animals(fsim.accumulated_grid) = 0
                         THEN "collapsed" ELSE "run_simulation",
                  !.steps = @ - 1,
                  !.current_grid = fsim.accumulated_grid,
                  !.initial_animals = << >>,
                  !.accumulated_grid = << >>,
                  !.accumulated_stats = ZeroStats,
                  !.turn = NoTurn,
                  !.turns = << >>]
    /\ UNCHANGED <<variant, imp, fun>>

\* ------------------------------------------------------------------------
\* imperative_simulation.py
\* ------------------------------------------------------------------------

\* Animal objects live in a heap (a list of records); a grid cell holds None,
\* '#', 'F' or a reference to an Animal object.
Animal(animal_id, r, c, type, energy, age) ==
    [id |-> animal_id, r |-> r, c |-> c, type |-> type, energy |-> energy,
     age |-> age, moved |-> FALSE]

Ref(a) == [kind |-> "Animal", ref |-> a]

\* isinstance(cell, Animal)
IsAnimalRef(cell) == cell.kind = "Animal"

\* grid[r][c] = content
SetCell(grid, pos, content) ==
    [p \in Cells |-> IF p = pos THEN content ELSE grid[p]]

move_safe_rc(r, c, dr, dc) == <<(r + dr) % ROWS, (c + dc) % COLS>>

\* the neighbour order of the reproduction loop
NEIGHBORS == << <<0, 1>>, <<1, 0>>, <<0, -1>>, <<-1, 0>> >>

\* the first neighbour cell of (r, c) that is None, scanning NEIGHBORS from idx
RECURSIVE first_none_neighbor(_, _, _, _)
first_none_neighbor(grid, r, c, idx) ==
    IF idx > Len(NEIGHBORS) THEN None
    ELSE LET spot == move_safe_rc(r, c, NEIGHBORS[idx][1], NEIGHBORS[idx][2])
         IN  IF grid[spot] = None THEN [kind |-> "pos", pos |-> spot]
             ELSE first_none_neighbor(grid, r, c, idx + 1)

\* fault: the move leaves the old cell pointing at the animal
move_to_keeps_old_cell(grid, heap, a, new_pos) ==
    [grid |-> SetCell(grid, new_pos, Ref(a)),
     heap |-> [heap EXCEPT ![a].r = new_pos[1], ![a].c = new_pos[2],
                           ![a].moved = TRUE]]

\* the move to an empty cell: clear the old cell, update the animal's own
\* position, write the new cell, set the moved flag
move_to(grid, heap, a, new_pos) ==
    [grid |-> SetCell(SetCell(grid, <<heap[a].r, heap[a].c>>, None), new_pos, Ref(a)),
     heap |-> [heap EXCEPT ![a].r = new_pos[1], ![a].c = new_pos[2],
                           ![a].moved = TRUE]]

\* One call of process_turn_imperative on the Animal object a.  direction,
\* gate and new_id are the random draws: get_random_direction(),
\* random.random() < 0.2 and random.randint(1000, 9999).
process_turn_imperative(grid, heap, a, step_stats, direction, gate, new_id) ==
    LET animal == heap[a]
        here == <<animal.r, animal.c>>
        Out(g, h, st, branch, new_pos, target_cell, before_split, baby) ==
            [grid |-> g, heap |-> h, step_stats |-> st, branch |-> branch,
             a |-> a, animal |-> animal, direction |-> direction,
             new_pos |-> new_pos, target_cell |-> target_cell,
             before_split |-> before_split, baby |-> baby]
    IN
    IF animal.moved
    THEN Out(grid, heap, step_stats, "moved", here, None, animal.energy, None)
    ELSE IF animal.energy <= 0
    THEN Out(SetCell(grid, here, None), heap,
             [step_stats EXCEPT !.deaths_starvation = @ + 1],
             "death", here, None, animal.energy, None)
    ELSE
    LET heap1 == [heap EXCEPT ![a].energy = @ - 3, ![a].age = @ + 1]
        new_pos == move_safe_rc(animal.r, animal.c, direction[1], direction[2])
        target_cell == grid[new_pos]
    IN
    IF target_cell = Obstacle
    THEN Out(grid, [heap1 EXCEPT ![a].energy = @ - 1],
             [step_stats EXCEPT !.obstacle_encounters = @ + 1],
             "obstacle", new_pos, target_cell, heap1[a].energy - 1, None)
    ELSE IF IsAnimalRef(target_cell) /\ heap1[target_cell.ref].id # heap1[a].id
    THEN Out(grid, [heap1 EXCEPT ![a].energy = @ - 2],
             [step_stats EXCEPT !.conflicts = @ + 1],
             "conflict", new_pos, target_cell, heap1[a].energy - 2, None)
    ELSE
    LET ate == target_cell = Food
        heap2 == IF ate THEN [heap1 EXCEPT ![a].energy = @ + 5] ELSE heap1
        grid2 == IF ate THEN SetCell(grid, new_pos, None) ELSE grid
        stats2 == IF ate THEN [step_stats EXCEPT !.food_eaten = @ + 1] ELSE step_stats
        moves == grid2[new_pos] = None
        grid3 == IF moves THEN move_to(grid2, heap2, a, new_pos).grid ELSE grid2
        heap3 == IF moves THEN move_to(grid2, heap2, a, new_pos).heap ELSE heap2
        reproduces == heap3[a].energy > 5 /\ heap3[a].age > 2 /\ gate
        spot == IF reproduces
                THEN first_none_neighbor(grid3, heap3[a].r, heap3[a].c, 1)
                ELSE None
        born == spot # None
        baby == Animal(new_id, spot.pos[1], spot.pos[2], heap3[a].type, 3, 0)
        branch == IF ate THEN "food" ELSE IF moves THEN "empty" ELSE "stay"
    IN
    IF born
    THEN Out(SetCell(grid3, spot.pos, Ref(Len(heap3) + 1)),
             Append([heap3 EXCEPT ![a].energy = @ \div 2], baby),
             [stats2 EXCEPT !.births = @ + 1],
             branch, new_pos, target_cell, heap3[a].energy, Ref(Len(heap3) + 1))
    ELSE Out(grid3, heap3, stats2, branch, new_pos, target_cell,
             heap3[a].energy, None)

\* the ids random.randint(1000, 9999) draws from, bounded
NewIds == 1000 .. (1000 + NumBabyIds - 1)

\* the loops of initialize_grid that place '#' and 'F': one random cell per
\* iteration, written only if the cell is None
RECURSIVE place_random(_, _, _)
place_random(grid, draws, marker) ==
    IF draws = << >> THEN grid
    ELSE place_random(IF grid[Head(draws)] = None
                      THEN SetCell(grid, Head(draws), marker)
                      ELSE grid,
                      Tail(draws), marker)

\* rabbit1, rabbit2, rabbit3 and the direct index assignments that place them
SeedHeap ==
    [n \in 1 .. Min(NumSeeds, Len(SEEDS)) |->
        Animal(SEEDS[n].id, SEEDS[n].pos[1], SEEDS[n].pos[2], "Rabbit", 10, 0)]

RECURSIVE SeedCellsOf(_)
SeedCellsOf(n) ==
    IF n = 0 THEN [pos \in Cells |-> None]
    ELSE SetCell(SeedCellsOf(n - 1), SEEDS[n].pos, Ref(n))

SeedCells == SeedCellsOf(Min(NumSeeds, Len(SEEDS)))

\* the grids initialize_grid (imperative) can return
InitialGridsImperative ==
    { place_random(place_random(SeedCells, od, Obstacle), fd, Food) :
        od \in [1 .. ObstacleCount -> Cells], fd \in [1 .. FoodCount -> Cells] }

ImpInit(grid) ==
    [pc |-> "run_simulation_imperative", steps |-> MaxStepsImp, i |-> 0,
     grid |-> grid, heap |-> SeedHeap,
     animals_to_process |-> << >>, next |-> 1, step_stats |-> ZeroStats,
     turn |-> NoTurn]

\* the Animal objects the grid refers to, in row-major order of the cells
RefsRowMajor(grid) ==
    LET cells == CellList({pos \in Cells : IsAnimalRef(grid[pos])})
    IN  [k \in 1 .. Len(cells) |-> grid[cells[k]].ref]

\* Objects no cell refers to are garbage once a step is over; the live objects
\* are renumbered in the order of their first cell so that the heap holds
\* exactly the objects of the grid.
FirstIndex(seq, x) == CHOOSE k \in 1 .. Len(seq) :
                         seq[k] = x /\ \A j \in 1 .. (k - 1) : seq[j] # x

RECURSIVE Distinct(_)
Distinct(seq) ==
    IF seq = << >> THEN << >>
    ELSE LET front == Distinct(SubSeq(seq, 1, Len(seq) - 1))
             last == seq[Len(seq)]
         IN  IF \E k \in 1 .. Len(front) : front[k] = last
             THEN front ELSE Append(front, last)

\* the grid and the heap with the garbage dropped and the live objects
\* renumbered
Compact(grid, heap) ==
    LET live == Distinct(RefsRowMajor(grid))
    IN  [grid |-> [pos \in Cells |->
                      IF IsAnimalRef(grid[pos])
                      THEN Ref(FirstIndex(live, grid[pos].ref))
                      ELSE grid[pos]],
         heap |-> [k \in 1 .. Len(live) |-> heap[live[k]]]]

\* fault: the moved flags of the previous step are kept
keep_moved(heap, animals_to_process) == heap

\* animal.moved = False for every collected animal
reset_moved(heap, animals_to_process) ==
    [a \in 1 .. Len(heap) |->
        IF \E k \in 1 .. Len(animals_to_process) : animals_to_process[k] = a
        THEN [heap[a] EXCEPT !.moved = FALSE]
        ELSE heap[a]]

\* step 1 of sim_step_imperative: collect the animals row by row and reset
\* their moved flag
sim_step_imperative ==
    /\ variant = "imperative_simulation"
    /\ imp.pc = "run_simulation_imperative"
    /\ imp.i < imp.steps
    /\ LET animals_to_process == RefsRowMajor(imp.grid)
       IN  imp' = [imp EXCEPT
                     !.pc = "sim_step_imperative",
                     !.heap = reset_moved(imp.heap, animals_to_process),
                     !.animals_to_process = animals_to_process,
                     !.next = 1,
                     !.step_stats = ZeroStats,
                     !.turn = NoTurn]
    /\ UNCHANGED <<variant, fsim, fun>>

\* step 2 of sim_step_imperative: one iteration of the loop over
\* animals_to_process
process_turn ==
    /\ variant = "imperative_simulation"
    /\ imp.pc = "sim_step_imperative"
    /\ imp.next <= Len(imp.animals_to_process)
    /\ \E direction \in {DIRECTIONS_WITH_STAY[k] : k \in 1 .. 5},
          gate \in BOOLEAN, new_id \in NewIds :
          LET t == process_turn_imperative(imp.grid, imp.heap,
                                           imp.animals_to_process[imp.next],
                                           imp.step_stats, direction, gate, new_id)
          IN  imp' = [imp EXCEPT !.grid = t.grid,
                                 !.heap = t.heap,
                                 !.step_stats = t.step_stats,
                                 !.next = @ + 1,
                                 !.turn = [t EXCEPT !.grid = << >>, !.heap = << >>,
                                                    !.step_stats = ZeroStats]]
    /\ UNCHANGED <<variant, fsim, fun>>

\* fault: the count of the loop's exit test is never zero
count_never_zero(grid) == Cardinality({pos \in Cells : IsAnimalRef(grid[pos])}) + 1

count_animals_imperative(grid) == Cardinality({pos \in Cells : IsAnimalRef(grid[pos])})

\* sim_step_imperative returns to the while loop of run_simulation_imperative,
\* which breaks when no animal is left
sim_step_imperative_return ==
    /\ variant = "imperative_simulation"
    /\ imp.pc = "sim_step_imperative"
    /\ imp.next > Len(imp.animals_to_process)
    /\ imp' = [imp EXCEPT
                 !.pc = IF count_animals_imperative(imp.grid) = 0
                        THEN "collapsed" ELSE "run_simulation_imperative",
                 !.i = @ + 1,
                 !.grid = Compact(imp.grid, imp.heap).grid,
                 !.heap = Compact(imp.grid, imp.heap).heap,
                 !.animals_to_process = << >>,
                 !.next = 1,
                 !.step_stats = ZeroStats,
                 !.turn = NoTurn]
    /\ UNCHANGED <<variant, fsim, fun>>

\* ------------------------------------------------------------------------
\* functional.py
\* ------------------------------------------------------------------------

INITIAL_ENERGY == 6

INITIAL_HEALTH == 10

REPRODUCTION_ENERGY == 10

MAX_AGE == 40

WorldCells == (0 .. GRID_SIZE - 1) \X (0 .. GRID_SIZE - 1)

make_animal(x, y) ==
    [x |-> x, y |-> y, energy |-> INITIAL_ENERGY, health |-> INITIAL_HEALTH, age |-> 0]

\* the outcomes of random.shuffle(directions)
Shuffles ==
    { p \in [1 .. 4 -> {DIRECTIONS[k] : k \in 1 .. 4}] :
        \A i, j \in 1 .. 4 : i # j => p[i] # p[j] }

\* fault: no range test
InWorldAlways(x, y) == TRUE

InWorld(x, y) == 0 <= x /\ x < GRID_SIZE /\ 0 <= y /\ y < GRID_SIZE

\* fault: the scan takes the first cell inside the grid, blocked or not
RECURSIVE first_open_ignores_blocked(_, _, _, _, _)
first_open_ignores_blocked(x, y, directions, blocked, idx) ==
    IF idx > Len(directions) THEN None
    ELSE IF InWorld(x + directions[idx][1], y + directions[idx][2])
    THEN [kind |-> "pos", pos |-> <<x + directions[idx][1], y + directions[idx][2]>>]
    ELSE first_open_ignores_blocked(x, y, directions, blocked, idx + 1)

\* the for loop with break of move_animal and of the reproduction block: the
\* first cell (x + dx, y + dy), in the order of directions, that lies in the
\* grid and is not blocked; None when the loop runs out
RECURSIVE first_open(_, _, _, _, _)
first_open(x, y, directions, blocked, idx) ==
    IF idx > Len(directions) THEN None
    ELSE LET nx == x + directions[idx][1]
             ny == y + directions[idx][2]
         IN  IF InWorld(nx, ny) /\ <<nx, ny>> \notin blocked
             THEN [kind |-> "pos", pos |-> <<nx, ny>>]
             ELSE first_open(x, y, directions, blocked, idx + 1)

move_animal(animal, obstacles, directions) ==
    LET to == first_open(animal.x, animal.y, directions, obstacles, 1)
    IN  [animal EXCEPT !.x = IF to = None THEN animal.x ELSE to.pos[1],
                       !.y = IF to = None THEN animal.y ELSE to.pos[2],
                       !.energy = animal.energy - 1]

\* fault: eating gives no energy
animal_after_eating_no_bonus(animal) == animal

animal_after_eating(animal) == [animal EXCEPT !.energy = @ + 4]

\* fault: the health is not clamped
update_life_unclamped(animal) ==
    LET age == animal.age + 1
        decayed == IF age % 8 = 0 THEN animal.health - 1 ELSE animal.health
        starved == IF animal.energy <= 1 THEN decayed - 2 ELSE decayed
        recovered == IF animal.energy >= 8 /\ starved < INITIAL_HEALTH
                     THEN starved + 1 ELSE starved
    IN  [animal EXCEPT !.age = age, !.health = recovered]

update_life(animal) ==
    LET age == animal.age + 1
        energy == animal.energy
        decayed == IF age % 8 = 0 THEN animal.health - 1 ELSE animal.health
        starved == IF energy <= 1 THEN decayed - 2 ELSE decayed
        recovered == IF energy >= 8 /\ starved < INITIAL_HEALTH
                     THEN starved + 1 ELSE starved
        health == IF recovered > INITIAL_HEALTH THEN INITIAL_HEALTH
                  ELSE IF recovered < 0 THEN 0 ELSE recovered
    IN  [animal EXCEPT !.age = age, !.health = health]

\* fault: only starvation kills
is_dead_energy_only(animal) == animal.energy <= 0

is_dead(animal) ==
    animal.energy <= 0 \/ animal.health <= 0 \/ animal.age >= MAX_AGE

PositionsOf(animals) == {<<animals[k].x, animals[k].y>> : k \in 1 .. Len(animals)}

\* the worlds empty_world can return: random obstacles, then INITIAL_ANIMALS
\* animals on distinct cells that are not obstacles, no food
EmptyWorlds ==
    { [animals |-> [k \in 1 .. INITIAL_ANIMALS |-> make_animal(oa[2][k][1], oa[2][k][2])],
       food |-> {}, obstacles |-> oa[1]] :
        oa \in { oa \in (SUBSET WorldCells) \X [1 .. INITIAL_ANIMALS -> WorldCells] :
                    /\ Cardinality(oa[1]) <= MaxObstacles
                    /\ \A k \in 1 .. INITIAL_ANIMALS : oa[2][k] \notin oa[1]
                    /\ \A j, k \in 1 .. INITIAL_ANIMALS : j # k => oa[2][j] # oa[2][k] } }

StepStats == [moves |-> 0, eats |-> 0, births |-> 0, deaths |-> 0]

\* run_simulation_functional(steps) before the first iteration of its loop
FunInit(world, steps) ==
    [pc |-> "run_simulation_functional", steps |-> steps, step |-> 0, world |-> world,
     next |-> 1, new_food |-> {}, new_animals |-> << >>, stats |-> StepStats,
     turn |-> NoTurn]

\* spawn_food: each cell that holds no animal, food or obstacle may receive
\* food; the model lets at most MaxSpawn cells receive it in one call
spawn_food ==
    /\ variant = "functional"
    /\ fun.pc = "run_simulation_functional"
    /\ fun.step < fun.steps
    /\ LET occupied == PositionsOf(fun.world.animals) \cup fun.world.food
                          \cup fun.world.obstacles
       IN  \E spawned \in SUBSET (WorldCells \ occupied) :
              /\ Cardinality(spawned) <= MaxSpawn
              /\ fun' = [fun EXCEPT !.pc = "step_world",
                                    !.world.food = @ \cup spawned]
    /\ UNCHANGED <<variant, fsim, imp>>

\* step_world is entered: the locals of the call
step_world ==
    /\ variant = "functional"
    /\ fun.pc = "step_world"
    /\ fun' = [fun EXCEPT !.pc = "for_animal",
                          !.next = 1,
                          !.new_food = fun.world.food,
                          !.new_animals = << >>,
                          !.stats = StepStats,
                          !.turn = NoTurn]
    /\ UNCHANGED <<variant, fsim, imp>>

\* the energy split of a reproduction
child_of(life_animal, nx, ny) ==
    [make_animal(nx, ny) EXCEPT !.energy = life_animal.energy \div 2]

\* fault: the parent is halved, as in the grid variants
parent_halved(life_animal) ==
    [life_animal EXCEPT !.energy = life_animal.energy \div 2]

parent_after_split(life_animal) ==
    [life_animal EXCEPT !.energy = life_animal.energy - life_animal.energy \div 2]

\* The body of the loop of step_world for one animal, after move_animal has
\* returned moved: eating, life update, death check, reproduction.
\* directions is the shuffle of the reproduction block.
step_animal(animal, moved, new_food, new_animals, stats, obstacles, directions) ==
    LET pos == <<moved.x, moved.y>>
        stats1 == IF pos # <<animal.x, animal.y>>
                  THEN [stats EXCEPT !.moves = @ + 1] ELSE stats
        eats == pos \in new_food
        moved_animal == IF eats THEN animal_after_eating(moved) ELSE moved
        food2 == IF eats THEN new_food \ {pos} ELSE new_food
        stats2 == IF eats THEN [stats1 EXCEPT !.eats = @ + 1] ELSE stats1
        life_animal == update_life(moved_animal)
        Out(animals, st, dead, parent, child) ==
            [new_food |-> food2, new_animals |-> animals, stats |-> st,
             branch |-> IF dead THEN "death" ELSE "alive",
             animal |-> animal, moved_animal |-> moved_animal,
             life_animal |-> life_animal, parent |-> parent, child |-> child]
    IN
    IF is_dead(life_animal)
    THEN Out(new_animals, [stats2 EXCEPT !.deaths = @ + 1], TRUE, None, None)
    ELSE
    LET occupied_positions == PositionsOf(new_animals) \cup {pos} \cup food2
                                 \cup obstacles
        spot == IF life_animal.energy >= REPRODUCTION_ENERGY
                THEN first_open(life_animal.x, life_animal.y, directions,
                                occupied_positions, 1)
                ELSE None
        born == spot # None
        child == child_of(life_animal, spot.pos[1], spot.pos[2])
        parent == IF born THEN parent_after_split(life_animal) ELSE life_animal
    IN  IF born
        THEN Out(new_animals \o <<parent, child>>,
                 [stats2 EXCEPT !.births = @ + 1], FALSE, parent, child)
        ELSE Out(Append(new_animals, parent), stats2, FALSE, parent, None)

\* one iteration of `for animal in animals`
for_animal ==
    /\ variant = "functional"
    /\ fun.pc = "for_animal"
    /\ fun.next <= Len(fun.world.animals)
    /\ LET animal == fun.world.animals[fun.next]
       IN  \E moved \in {move_animal(animal, fun.world.obstacles, d) : d \in Shuffles} :
           \E t \in {step_animal(animal, moved, fun.new_food, fun.new_animals,
                                 fun.stats, fun.world.obstacles, d) : d \in Shuffles} :
              fun' = [fun EXCEPT !.next = @ + 1,
                                 !.new_food = t.new_food,
                                 !.new_animals = t.new_animals,
                                 !.stats = t.stats,
                                 !.turn = [t EXCEPT !.new_food = {},
                                                    !.new_animals = << >>,
                                                    !.stats = StepStats]]
    /\ UNCHANGED <<variant, fsim, imp>>

\* step_world returns the new world; the loop of run_simulation_functional
\* breaks when no animal is left
step_world_return ==
    /\ variant = "functional"
    /\ fun.pc = "for_animal"
    /\ fun.next > Len(fun.world.animals)
    /\ fun' = [fun EXCEPT
                 !.pc = IF fun.new_animals = << >>
                        THEN "all_dead" ELSE "run_simulation_functional",
                 !.step = @ + 1,
                 !.world = [animals |-> fun.new_animals, food |-> fun.new_food,
                            obstacles |-> fun.world.obstacles],
                 !.next = 1,
                 !.new_food = {},
                 !.new_animals = << >>,
                 !.stats = StepStats,
                 !.turn = NoTurn]
    /\ UNCHANGED <<variant, fsim, imp>>

\* ------------------------------------------------------------------------
\* initialize_grid of functional_simulation.py, call by call
\* ------------------------------------------------------------------------

\* fault: place_entities never skips a cell
never_in_grid(grid, head) == FALSE

\* `head in grid`: the cell is taken and place_entities skips it
head_in_grid(grid, head) == HasKey(grid, head)

\* initialize_grid before the first call of place_entities: the seed grid, no
\* cell of the shuffled list consumed yet, obstacle_count markers to place.
\* random.sample(build_coords(), ROWS * COLS) is a random order of all cells;
\* the model draws the next cell of that order when place_entities reaches it,
\* and keeps the cells consumed so far.
InitializeGridInit ==
    [pc |-> "place_obstacles", grid |-> SeedGrid, consumed |-> {},
     remaining |-> ObstacleCount]

\* one call of place_entities with remaining > 0 and coords left: the head of
\* coords is skipped if it is in the grid and receives the marker otherwise
place_entities_head ==
    /\ variant = "initialize_grid"
    /\ fsim.pc \in {"place_obstacles", "place_food"}
    /\ fsim.remaining > 0
    /\ fsim.consumed # Cells
    /\ \E head \in Cells \ fsim.consumed :
          fsim' = IF head_in_grid(fsim.grid, head)
                  THEN [fsim EXCEPT !.consumed = @ \cup {head}]
                  ELSE [fsim EXCEPT
                          !.consumed = @ \cup {head},
                          !.grid = DictSet(fsim.grid, head,
                                           IF fsim.pc = "place_obstacles"
                                           THEN Obstacle ELSE Food),
                          !.remaining = @ - 1]
    /\ UNCHANGED <<variant, imp, fun>>

\* the base case of place_entities (remaining == 0 or not coords): the grid
\* and the rest of coords go back to initialize_grid, which places the food
\* next and then returns the grid
place_entities_base ==
    /\ variant = "initialize_grid"
    /\ fsim.pc \in {"place_obstacles", "place_food"}
    /\ fsim.remaining = 0 \/ fsim.consumed = Cells
    /\ fsim' = IF fsim.pc = "place_obstacles"
               THEN [fsim EXCEPT !.pc = "place_food", !.remaining = FoodCount]
               ELSE [fsim EXCEPT !.pc = "initialized", !.remaining = 0]
    /\ UNCHANGED <<variant, imp, fun>>

Off == [pc |-> "off"]

InitFsim ==
    /\ variant = "functional_simulation"
    /\ fsim \in {FsimInit(grid) : grid \in InitialGrids}
    /\ imp = Off
    /\ fun = Off

InitImp ==
    /\ variant = "imperative_simulation"
    /\ imp \in {ImpInit(grid) : grid \in InitialGridsImperative}
    /\ fsim = Off
    /\ fun = Off

InitFun ==
    /\ variant = "functional"
    /\ fun \in {FunInit(world, MaxStepsFun) : world \in EmptyWorlds}
    /\ fsim = Off
    /\ imp = Off

Init == InitFsim \/ InitImp \/ InitFun

NextFsim == sim_step \/ recursive_processor \/ sim_step_return

NextImp == sim_step_imperative \/ process_turn \/ sim_step_imperative_return

NextFun == spawn_food \/ step_world \/ for_animal \/ step_world_return

Next == NextFsim \/ NextImp \/ NextFun

\* one variant chosen at the start, then run
Spec == Init /\ [][Next]_vars

\* each variant alone
SpecFsim == InitFsim /\ [][NextFsim]_vars

SpecImp == InitImp /\ [][NextImp]_vars

SpecFun == InitFun /\ [][NextFun]_vars

\* The caller-level loops close to their end.  run_simulation and
\* run_simulation_imperative take the grid as an argument; the grids here are
\* those of initialize_grid after three steps in which every animal drew the
\* stay direction (dict grid: cost 2 and penalty 1 a step, the animal re-enters
\* the dict last; imperative: cost 3 a step): energy 1, age 3.  The loops have
\* LoopSteps steps left.
WornGrid(grid) ==
    LET animals == SortedById(collect_animals(grid))
    IN  SelectSeq(grid, LAMBDA item : ~IsAnimal(item.val)) \o
        [k \in 1 .. Len(animals) |->
            Item(animals[k].pos, [animals[k].val EXCEPT !.energy = 1, !.age = 3])]

WornHeap == [a \in 1 .. Len(SeedHeap) |-> [SeedHeap[a] EXCEPT !.energy = 1, !.age = 3]]

\* the loop of run_simulation_functional after five iterations without food:
\* every animal has moved five times (energy 1, age 5, health 8 after the
\* starvation penalty of the fifth update_life)
WornWorlds ==
    { [world EXCEPT !.animals =
          [k \in 1 .. Len(world.animals) |->
              [world.animals[k] EXCEPT !.energy = 1, !.age = 5, !.health = 8]]] :
        world \in EmptyWorlds }

\* the grids of initialize_grid (imperative) in which every random draw hit
\* an empty cell
FullGridsImperative ==
    { grid \in InitialGridsImperative :
        /\ Cardinality({pos \in Cells : grid[pos] = Obstacle}) = ObstacleCount
        /\ Cardinality({pos \in Cells : grid[pos] = Food}) = FoodCount }

InitLoops ==
    \/ /\ variant = "functional_simulation"
       /\ fsim \in {[FsimInit(WornGrid(grid)) EXCEPT !.steps = LoopSteps] :
                        grid \in InitialGrids}
       /\ imp = Off
       /\ fun = Off
    \/ /\ variant = "imperative_simulation"
       /\ imp \in {[ImpInit(grid) EXCEPT !.grid = Compact(grid, WornHeap).grid,
                                          !.heap = Compact(grid, WornHeap).heap,
                                          !.i = 3, !.steps = 3 + LoopSteps] :
                       grid \in FullGridsImperative}
       /\ fsim = Off
       /\ fun = Off
    \/ /\ variant = "functional"
       /\ fun \in {[FunInit(world, 5 + LoopSteps) EXCEPT !.step = 5] :
                       world \in WornWorlds}
       /\ fsim = Off
       /\ imp = Off

\* a running program takes its next step
SpecLoops == InitLoops /\ [][Next]_vars /\ WF_vars(Next)

\* The loop of run_simulation_functional late in a long run, LoopSteps
\* iterations before its end.  Every animal has the age of the iteration
\* count.  An animal that ate at iterations 5, 9, ..., 37 has energy 3 and
\* health 6 (four age decays) at age 39; an animal that ate at iterations 6,
\* 10 and 14 has energy 2 and health 2 (three starvation penalties, two age
\* decays) at age 16.
LateLives ==
    { [energy |-> 3, health |-> 6, age |-> 39],
      [energy |-> 2, health |-> 2, age |-> 16] }

LateWorlds(life) ==
    { [world EXCEPT !.animals =
          [k \in 1 .. Len(world.animals) |->
              [world.animals[k] EXCEPT !.energy = life.energy,
                                       !.age = life.age,
                                       !.health = life.health]]] :
        world \in EmptyWorlds }

InitFunLate ==
    /\ variant = "functional"
    /\ \E life \in LateLives :
          fun \in {[FunInit(world, life.age + LoopSteps) EXCEPT !.step = life.age] :
                      world \in LateWorlds(life)}
    /\ fsim = Off
    /\ imp = Off

\* run_simulation_functional from its start, from the worn worlds and from the
\* late worlds
SpecFunLife ==
    (InitFun \/ (InitLoops /\ variant = "functional") \/ InitFunLate)
        /\ [][NextFun]_vars

\* initialize_grid alone
InitInitialize ==
    /\ variant = "initialize_grid"
    /\ fsim = InitializeGridInit
    /\ imp = Off
    /\ fun = Off

NextInitialize == place_entities_head \/ place_entities_base

SpecInitialize == InitInitialize /\ [][NextInitialize]_vars

\* run_simulation_imperative at the start of its fourth step, on a grid that
\* had three food cells ((1,0), (2,0), (2,1)) besides the obstacle at (0,1) and
\* the rabbits 10 at (1,1) and 20 at (0,0).  Rabbit 20 ate at (2,0) and (1,0)
\* and moved to (0,0); rabbit 10 stayed twice, ate at (2,1) in the third step
\* and had the child 1000 at (2,0) there.
LateHeapImperative ==
    << [Animal(20, 0, 0, "Rabbit", 11, 3) EXCEPT !.moved = TRUE],
       Animal(1000, 2, 0, "Rabbit", 3, 0),
       [Animal(10, 2, 1, "Rabbit", 3, 3) EXCEPT !.moved = TRUE] >>

LateGridImperative ==
    SetCell(SetCell(SetCell(SetCell([pos \in Cells |-> None],
        <<0, 1>>, Obstacle), <<0, 0>>, Ref(1)), <<2, 0>>, Ref(2)), <<2, 1>>, Ref(3))

InitImpLate ==
    /\ variant = "imperative_simulation"
    /\ imp = [ImpInit(LateGridImperative) EXCEPT !.heap = LateHeapImperative,
                                                 !.i = 3, !.steps = 4]
    /\ fsim = Off
    /\ fun = Off

\* run_simulation_imperative from its start and from the late grid
SpecImpLate == (InitImp \/ InitImpLate) /\ [][NextImp]_vars

\* initialize_grid of imperative_simulation.py, iteration by iteration: the
\* seed animals are placed, then each iteration of the two loops draws one
\* cell (r, c) and writes the marker if the cell is None
InitInitializeImperative ==
    /\ variant = "initialize_grid_imperative"
    /\ imp = [pc |-> "place_obstacles", grid |-> SeedCells, heap |-> SeedHeap,
              k |-> 0, draw |-> None]
    /\ fsim = Off
    /\ fun = Off

\* one iteration of `for _ in range(int(ROWS * COLS * 0.1))`
initialize_grid_obstacle ==
    /\ variant = "initialize_grid_imperative"
    /\ imp.pc = "place_obstacles"
    /\ imp.k < ObstacleCount
    /\ \E pos \in Cells :
          imp' = [imp EXCEPT !.grid = place_random(@, <<pos>>, Obstacle),
                             !.k = @ + 1,
                             !.draw = [kind |-> "pos", pos |-> pos]]
    /\ UNCHANGED <<variant, fsim, fun>>

\* the first loop is over, the second begins
initialize_grid_loop_end ==
    /\ variant = "initialize_grid_imperative"
    /\ imp.pc = "place_obstacles"
    /\ imp.k = ObstacleCount
    /\ imp' = [imp EXCEPT !.pc = "place_food", !.k = 0, !.draw = None]
    /\ UNCHANGED <<variant, fsim, fun>>

\* one iteration of `for _ in range(int(ROWS * COLS * 0.15))`
initialize_grid_food ==
    /\ variant = "initialize_grid_imperative"
    /\ imp.pc = "place_food"
    /\ imp.k < FoodCount
    /\ \E pos \in Cells :
          imp' = [imp EXCEPT !.grid = place_random(@, <<pos>>, Food),
                             !.k = @ + 1,
                             !.draw = [kind |-> "pos", pos |-> pos]]
    /\ UNCHANGED <<variant, fsim, fun>>

\* return grid
initialize_grid_return ==
    /\ variant = "initialize_grid_imperative"
    /\ imp.pc = "place_food"
    /\ imp.k = FoodCount
    /\ imp' = [imp EXCEPT !.pc = "initialized", !.draw = None]
    /\ UNCHANGED <<variant, fsim, fun>>

NextInitializeImperative ==
    \/ initialize_grid_obstacle
    \/ initialize_grid_loop_end
    \/ initialize_grid_food
    \/ initialize_grid_return

SpecInitializeImperative ==
    InitInitializeImperative /\ [][NextInitializeImperative]_vars

\* The grid variants run until no animal is left.  Every turn of a living
\* animal lowers the energy in the grid (animals and food) by at least one, so
\* a run from initialize_grid has fewer steps than DrainSteps; the loops are
\* given DrainSteps steps and never use them up.  The grid is the one of
\* initialize_grid in which the obstacles and then the food take the first
\* free cells in row-major order.
DrainSteps == 11 * NumSeeds + 5 * FoodCount + 1

DrainCells(n) ==
    LET free == CellList(FreeCells(SeedGrid))
    IN  {free[k] : k \in 1 .. Min(n, Len(free))}

InitDrain ==
    \/ /\ variant = "functional_simulation"
       /\ fsim \in {[FsimInit(grid) EXCEPT !.steps = DrainSteps] :
                        grid \in {g \in InitialGrids :
                            \A pos \in DrainCells(ObstacleCount + FoodCount) :
                                DictGet(g, pos) =
                                    IF pos \in DrainCells(ObstacleCount)
                                    THEN Obstacle ELSE Food}}
       /\ imp = Off
       /\ fun = Off
    \/ /\ variant = "imperative_simulation"
       /\ imp \in {[ImpInit(grid) EXCEPT !.steps = DrainSteps] :
                       grid \in {g \in InitialGridsImperative :
                            \A pos \in DrainCells(ObstacleCount + FoodCount) :
                                g[pos] = IF pos \in DrainCells(ObstacleCount)
                                         THEN Obstacle ELSE Food}}
       /\ fsim = Off
       /\ fun = Off

SpecDrain == InitDrain /\ [][NextFsim \/ NextImp]_vars

\* empty_world of functional.py, call by call.  random_obstacles tests
\* random.random() < OBSTACLE_DENSITY for each cell on its own, so it can
\* return any set of cells.
InitEmptyWorld ==
    /\ variant = "empty_world"
    /\ fun = [pc |-> "random_obstacles", obstacles |-> {}, animals |-> << >>,
              occupied |-> {}, food |-> {}, draw |-> None]
    /\ fsim = Off
    /\ imp = Off

\* obstacles = random_obstacles(), and random_animals starts with
\* occupied = set(obstacles)
random_obstacles ==
    /\ variant = "empty_world"
    /\ fun.pc = "random_obstacles"
    /\ \E coords \in SUBSET WorldCells :
          fun' = [fun EXCEPT !.pc = "random_animals", !.obstacles = coords,
                             !.occupied = coords]
    /\ UNCHANGED <<variant, fsim, imp>>

\* an iteration of the while loop of random_animals whose draw is not occupied
random_animals_place ==
    /\ variant = "empty_world"
    /\ fun.pc = "random_animals"
    /\ Len(fun.animals) < INITIAL_ANIMALS
    /\ \E pos \in WorldCells \ fun.occupied :
          fun' = [fun EXCEPT !.animals = Append(@, make_animal(pos[1], pos[2])),
                             !.occupied = @ \cup {pos},
                             !.draw = [kind |-> "pos", pos |-> pos]]
    /\ UNCHANGED <<variant, fsim, imp>>

\* an iteration whose draw is occupied: nothing is placed
random_animals_retry ==
    /\ variant = "empty_world"
    /\ fun.pc = "random_animals"
    /\ Len(fun.animals) < INITIAL_ANIMALS
    /\ \E pos \in fun.occupied :
          fun' = [fun EXCEPT !.draw = [kind |-> "pos", pos |-> pos]]
    /\ UNCHANGED <<variant, fsim, imp>>

\* the loop is over: random_animals returns and empty_world builds the world
empty_world_return ==
    /\ variant = "empty_world"
    /\ fun.pc = "random_animals"
    /\ Len(fun.animals) >= INITIAL_ANIMALS
    /\ fun' = [fun EXCEPT !.pc = "empty_world_returned", !.draw = None]
    /\ UNCHANGED <<variant, fsim, imp>>

NextEmptyWorld ==
    \/ random_obstacles
    \/ random_animals_place
    \/ random_animals_retry
    \/ empty_world_return

\* every call returns, and a loop that can draw a free cell does draw one in
\* the end
SpecEmptyWorld ==
    /\ InitEmptyWorld
    /\ [][NextEmptyWorld]_vars
    /\ WF_vars(random_obstacles)
    /\ WF_vars(random_animals_place)
    /\ WF_vars(empty_world_return)

\* update_life alone: the animals step_world can pass to it (a living animal
\* after move_animal and eating: energy from 0, health from 1, age below
\* MAX_AGE), energy bounded by MaxEnergy
LifeInputs ==
    [x : 0 .. GRID_SIZE - 1, y : 0 .. GRID_SIZE - 1, energy : 0 .. MaxEnergy,
     health : 1 .. INITIAL_HEALTH, age : 0 .. MAX_AGE - 1]

InitUpdateLife ==
    /\ variant = "update_life"
    /\ fun \in {[pc |-> "update_life", animal |-> animal] : animal \in LifeInputs}
    /\ fsim = Off
    /\ imp = Off

\* the call life_animal = update_life(moved_animal)
update_life_call ==
    /\ variant = "update_life"
    /\ fun.pc = "update_life"
    /\ fun' = [pc |-> "update_life_returned", animal |-> fun.animal,
               life_animal |-> update_life(fun.animal)]
    /\ UNCHANGED <<variant, fsim, imp>>

\* update_life on its own and inside run_simulation_functional
SpecUpdateLife ==
    (InitUpdateLife \/ InitFun \/ InitFunLate)
        /\ [][update_life_call \/ NextFun]_vars

\* ------------------------------------------------------------------------
\* Properties
\* ------------------------------------------------------------------------

\* a turn of pure_process_animal_turn has just returned
FsimTurn ==
    /\ fsim.pc = "recursive_processor"
    /\ fsim.turn.branch \notin {"none", "skipped"}

\* recursive_processor has no work left: accumulated_grid and
\* accumulated_stats are the result of sim_step(current_grid)
FsimStepEnd ==
    /\ fsim.pc = "recursive_processor"
    /\ fsim.remaining_animals = << >>

\* a call of process_turn_imperative has just returned
ImpTurn ==
    /\ imp.pc = "sim_step_imperative"
    /\ imp.turn.branch # "none"

\* the loop of sim_step_imperative is over
ImpStepEnd ==
    /\ imp.pc = "sim_step_imperative"
    /\ imp.next > Len(imp.animals_to_process)

\* an iteration of the loop of step_world has just ended
FunTurn ==
    /\ fun.pc = "for_animal"
    /\ fun.turn.branch # "none"

\* the loop of step_world is over: new_animals, new_food and stats are the
\* result of step_world(world)
FunStepEnd ==
    /\ fun.pc = "for_animal"
    /\ fun.next > Len(fun.world.animals)

\* the animal dicts of a grid (functional_simulation.py)
AnimalsIn(grid) == collect_animals(grid)

\* the cells of the imperative grid that hold an Animal
AnimalCells(grid) == {pos \in Cells : IsAnimalRef(grid[pos])}

\* C1: in every reachable world of functional.py no two animals of
\* world['animals'] have the same (x, y) position.
C1_DistinctPositions ==
    fun.pc # "off" =>
        \A j, k \in 1 .. Len(fun.world.animals) :
            j # k => <<fun.world.animals[j].x, fun.world.animals[j].y>>
                        # <<fun.world.animals[k].x, fun.world.animals[k].y>>

\* C2: in the grid variants an agent whose energy is <= 0 after its own turn
\* is removed from the grid in that step and counted as a death, and after a
\* step no agent left in the grid has energy <= 0.
C2_StarvedRemovedInSameStep ==
    /\ (FsimTurn /\ fsim.turn.branch # "death" /\ fsim.turn.parent.energy <= 0)
          => /\ ~IsAnimal(DictGet(fsim.accumulated_grid, fsim.turn.final_pos))
             /\ fsim.turn.turn_stats.deaths_starvation = 1
    /\ FsimStepEnd =>
          \A k \in 1 .. Len(AnimalsIn(fsim.accumulated_grid)) :
              AnimalsIn(fsim.accumulated_grid)[k].val.energy > 0
    /\ (ImpTurn /\ imp.turn.branch \notin {"death", "moved"}
          /\ imp.heap[imp.turn.a].energy <= 0)
          => \A pos \in AnimalCells(imp.grid) : imp.grid[pos].ref # imp.turn.a
    /\ ImpStepEnd =>
          \A pos \in AnimalCells(imp.grid) : imp.heap[imp.grid[pos].ref].energy > 0

\* C3: in the grid variants, whenever a turn creates a child, the child's
\* energy is half of the parent's energy at that moment (integer division),
\* and child energy + parent energy after the split = parent energy before.
C3_ChildGetsHalf ==
    /\ (FsimTurn /\ fsim.turn.baby # None)
          => /\ fsim.turn.baby.energy = fsim.turn.updated_animal.energy \div 2
             /\ fsim.turn.baby.energy + fsim.turn.parent.energy
                   = fsim.turn.updated_animal.energy
    /\ (ImpTurn /\ imp.turn.baby # None)
          => /\ imp.heap[imp.turn.baby.ref].energy = imp.turn.before_split \div 2
             /\ imp.heap[imp.turn.baby.ref].energy + imp.heap[imp.turn.a].energy
                   = imp.turn.before_split

\* C4: in step_world every reproduction keeps the parent's energy >= 0,
\* child energy + parent energy after = parent energy before, and parent and
\* child both come out with energy >= 5 and alive.
C4_SplitConservesEnergy ==
    (FunTurn /\ fun.turn.child # None)
        => /\ fun.turn.parent.energy >= 0
           /\ fun.turn.child.energy + fun.turn.parent.energy
                 = fun.turn.life_animal.energy
           /\ fun.turn.life_animal.energy >= REPRODUCTION_ENERGY
           /\ fun.turn.child.energy >= 5
           /\ fun.turn.parent.energy >= 5
           /\ ~is_dead(fun.turn.child)
           /\ ~is_dead(fun.turn.parent)
           /\ fun.new_animals[Len(fun.new_animals)] = fun.turn.child
           /\ fun.new_animals[Len(fun.new_animals) - 1] = fun.turn.parent

\* a reproduction in step_world that splits an odd energy
C4_Witness ==
    /\ FunTurn
    /\ fun.turn.child # None
    /\ fun.turn.life_animal.energy % 2 = 1

\* the animals a step has already processed have age >= 1; the children it
\* created have age 0
Survivors(ages) == Cardinality({k \in DOMAIN ages : ages[k] >= 1})

FsimAges(grid) == [k \in 1 .. Len(AnimalsIn(grid)) |-> AnimalsIn(grid)[k].val.age]

ImpAges(grid, heap) ==
    [k \in 1 .. Len(RefsRowMajor(grid)) |-> heap[RefsRowMajor(grid)[k]].age]

FunAges(animals) == [k \in 1 .. Len(animals) |-> animals[k].age]

\* C5: at the end of every step of each variant, deaths + the tick-start
\* agents still present = the agents alive at tick start, and the agent
\* count after = the count before - deaths + births.
C5_EveryAgentAccounted ==
    /\ FsimStepEnd =>
          /\ fsim.accumulated_stats.deaths_starvation
                + Survivors(FsimAges(fsim.accumulated_grid))
                = count_animals(fsim.current_grid)
          /\ count_animals(fsim.accumulated_grid)
                = count_animals(fsim.current_grid)
                  - fsim.accumulated_stats.deaths_starvation
                  + fsim.accumulated_stats.births
    /\ ImpStepEnd =>
          /\ imp.step_stats.deaths_starvation + Survivors(ImpAges(imp.grid, imp.heap))
                = Len(imp.animals_to_process)
          /\ count_animals_imperative(imp.grid)
                = Len(imp.animals_to_process) - imp.step_stats.deaths_starvation
                  + imp.step_stats.births
    /\ FunStepEnd =>
          /\ fun.stats.deaths + Survivors(FunAges(fun.new_animals))
                = Len(fun.world.animals)
          /\ Len(fun.new_animals)
                = Len(fun.world.animals) - fun.stats.deaths + fun.stats.births

\* a step that ends with a death and a birth
C5_Witness ==
    /\ ImpStepEnd
    /\ imp.step_stats.deaths_starvation >= 1
    /\ imp.step_stats.births >= 1

NoDuplicates(seq) == \A j, k \in 1 .. Len(seq) : j # k => seq[j] # seq[k]

\* C6: in one call of sim_step / sim_step_imperative the turn rule is applied
\* exactly once to each agent in the grid when the call starts and never to
\* an agent born during the call: the list of the call holds each tick-start
\* agent once, the identity guard and the moved flag never skip an entry,
\* every turn is applied to an agent of the tick-start grid, and the agents
\* still waiting are untouched at their recorded cell.
C6_EachAgentOnce ==
    /\ fsim.pc = "recursive_processor" =>
          /\ fsim.turn.branch # "skipped"
          /\ Len(fsim.initial_animals) = count_animals(fsim.current_grid)
          /\ NoDuplicates([k \in 1 .. Len(fsim.initial_animals) |->
                              fsim.initial_animals[k].pos])
          /\ \A k \in 1 .. Len(fsim.initial_animals) :
                DictGet(fsim.current_grid, fsim.initial_animals[k].pos)
                   = fsim.initial_animals[k].val
          /\ \A k \in 1 .. Len(fsim.remaining_animals) :
                DictGet(fsim.accumulated_grid, fsim.remaining_animals[k].pos)
                   = fsim.remaining_animals[k].val
          /\ fsim.turn.branch # "none" =>
                DictGet(fsim.current_grid, fsim.turn.pos) = fsim.turn.animal
    /\ imp.pc = "sim_step_imperative" =>
          /\ imp.turn.branch # "moved"
          /\ NoDuplicates(imp.animals_to_process)
          /\ \A k \in imp.next .. Len(imp.animals_to_process) :
                /\ ~imp.heap[imp.animals_to_process[k]].moved
                /\ imp.grid[<<imp.heap[imp.animals_to_process[k]].r,
                              imp.heap[imp.animals_to_process[k]].c>>]
                      = Ref(imp.animals_to_process[k])
          /\ ImpStepEnd =>
                Cardinality({pos \in AnimalCells(imp.grid) :
                                \A k \in 1 .. Len(imp.animals_to_process) :
                                    imp.animals_to_process[k] # imp.grid[pos].ref})
                   = imp.step_stats.births

\* a step of sim_step in which an agent moved, a child was born, and every
\* entry of the list has had its turn
C6_Witness ==
    /\ FsimStepEnd
    /\ Len(fsim.initial_animals) >= 2
    /\ fsim.accumulated_stats.births >= 1
    /\ fsim.turn.final_pos # fsim.turn.pos

\* C7: in the grid variants all agents in the grid have pairwise distinct
\* ids at every moment of a run that starts from initialize_grid().
C7_DistinctIds ==
    /\ fsim.pc # "off" =>
          /\ NoDuplicates([k \in 1 .. Len(AnimalsIn(fsim.current_grid)) |->
                              AnimalsIn(fsim.current_grid)[k].val.id])
          /\ NoDuplicates([k \in 1 .. Len(AnimalsIn(fsim.accumulated_grid)) |->
                              AnimalsIn(fsim.accumulated_grid)[k].val.id])
    /\ imp.pc # "off" =>
          \A p, q \in AnimalCells(imp.grid) :
              p # q => imp.heap[imp.grid[p].ref].id # imp.heap[imp.grid[q].ref].id

Neighbors(pos) == {generate_neighbors(pos)[k] : k \in 1 .. 4}

\* the turn started with all four neighbour cells of the agent empty
AllNeighborsEmpty == \A n \in Neighbors(fsim.turn.pos) : ~HasKey(fsim.turn.grid, n)

\* what C8 promises of a turn: exactly one new agent, in a neighbour cell of
\* `around`, births == 1, the parent's energy halved
OneChildAround(around) ==
    /\ fsim.turn.baby # None
    /\ fsim.turn.turn_stats.births = 1
    /\ count_animals(fsim.accumulated_grid) = count_animals(fsim.turn.grid) + 1
    /\ fsim.turn.empty_spot.pos \in Neighbors(around)
    /\ DictGet(fsim.accumulated_grid, fsim.turn.empty_spot.pos) = fsim.turn.baby
    /\ fsim.turn.parent.energy = fsim.turn.updated_animal.energy \div 2
    /\ DictGet(fsim.accumulated_grid, fsim.turn.final_pos) = fsim.turn.parent

\* C8 as stated: an agent with energy > 5 and age > 2 when the step starts,
\* all four neighbour cells empty and the gate succeeding, gets exactly one
\* child in a neighbour cell of its pre-step position, births == 1 and its
\* energy halved.
C8_Original ==
    (/\ FsimTurn
     /\ fsim.turn.animal.energy > 5
     /\ fsim.turn.animal.age > 2
     /\ AllNeighborsEmpty
     /\ fsim.turn.gate # "fail")
        => OneChildAround(fsim.turn.pos)

\* C8 amended: an agent whose energy is > 5 after the turn's cost, penalty
\* and bonus and whose age is > 2 after the turn's increment, with all four
\* neighbour cells empty when its turn starts and the gate succeeding, gets
\* exactly one child in a neighbour cell of its post-move position,
\* births == 1 and its energy halved.
C8_Amended ==
    (/\ FsimTurn
     /\ fsim.turn.branch # "death"
     /\ fsim.turn.updated_animal.energy > 5
     /\ fsim.turn.updated_animal.age > 2
     /\ AllNeighborsEmpty
     /\ fsim.turn.gate = "pass")
        => OneChildAround(fsim.turn.final_pos)

\* such a turn, in which the agent moved before it reproduced
C8_Witness ==
    /\ FsimTurn
    /\ fsim.turn.branch # "death"
    /\ fsim.turn.updated_animal.energy > 5
    /\ fsim.turn.updated_animal.age > 2
    /\ AllNeighborsEmpty
    /\ fsim.turn.gate = "pass"
    /\ fsim.turn.final_pos # fsim.turn.pos
    /\ fsim.turn.baby # None

\* C9: in the imperative variant every Animal object stored in grid[r][c]
\* has animal.r == r and animal.c == c, and no Animal object is referenced
\* from more than one cell.
C9_PositionMatchesCell ==
    imp.pc # "off" =>
        /\ \A pos \in AnimalCells(imp.grid) :
              <<imp.heap[imp.grid[pos].ref].r, imp.heap[imp.grid[pos].ref].c>> = pos
        /\ \A p, q \in AnimalCells(imp.grid) :
              p # q => imp.grid[p].ref # imp.grid[q].ref

\* a turn in which the animal moved and had a child, in a step with a death
C9_Witness ==
    /\ ImpTurn
    /\ imp.turn.branch \in {"empty", "food"}
    /\ imp.turn.baby # None
    /\ imp.step_stats.deaths_starvation >= 1

\* C10: pure_process_animal_turn resolves a turn as a conflict (no move,
\* penalty 1, conflicts + 1) if and only if the destination cell holds an
\* agent other than the mover; the stay direction is no conflict.
C10_ConflictIffOtherAgent ==
    (FsimTurn /\ fsim.turn.branch # "death") =>
        /\ fsim.turn.branch = "conflict"
              <=> /\ IsAnimal(fsim.turn.target_content)
                  /\ fsim.turn.new_pos # fsim.turn.pos
        /\ fsim.turn.turn_stats.conflicts = 1 <=> fsim.turn.branch = "conflict"
        /\ fsim.turn.branch = "conflict" =>
              /\ fsim.turn.final_pos = fsim.turn.pos
              /\ fsim.turn.updated_animal.energy = fsim.turn.animal.energy - 2 - 1

\* the grid a call of sim_step is working on, or the grid between two calls
FsimGrid ==
    IF fsim.pc = "recursive_processor" THEN fsim.accumulated_grid
    ELSE fsim.current_grid

\* the obstacle cells of the running variant
ObstacleCells ==
    CASE variant = "functional_simulation" ->
             {pos \in Cells : DictGet(FsimGrid, pos) = Obstacle}
      [] variant = "imperative_simulation" ->
             {pos \in Cells : imp.grid[pos] = Obstacle}
      [] OTHER -> fun.world.obstacles

\* functional.py keeps animals, food and obstacles in separate collections:
\* no animal and no food item, of the world or of the step under way, lies on
\* an obstacle cell
NothingOnObstacles ==
    fun.pc # "off" =>
        /\ PositionsOf(fun.world.animals) \cap fun.world.obstacles = {}
        /\ fun.world.food \cap fun.world.obstacles = {}
        /\ PositionsOf(fun.new_animals) \cap fun.world.obstacles = {}
        /\ fun.new_food \cap fun.world.obstacles = {}

\* C11: in every variant the set of obstacle cells never changes after
\* bootstrap: no turn and no food spawn removes an obstacle, creates one, or
\* puts an agent or food on an obstacle cell.
C11_ObstaclesNeverChange ==
    /\ [][ObstacleCells' = ObstacleCells]_vars
    /\ []NothingOnObstacles

\* a step of the dict-grid variant in which an agent ran into the obstacle
\* and another turn produced a child
C11_Witness ==
    /\ FsimStepEnd
    /\ ObstacleCells # {}
    /\ fsim.accumulated_stats.obstacle_encounters >= 1
    /\ fsim.accumulated_stats.births >= 1

\* the food cells and the eat counter of the running variant; inside a step
\* they are those of the step under way
FoodCells ==
    CASE variant = "functional_simulation" ->
             {pos \in Cells : DictGet(FsimGrid, pos) = Food}
      [] variant = "imperative_simulation" ->
             {pos \in Cells : imp.grid[pos] = Food}
      [] OTHER -> IF fun.pc = "for_animal" THEN fun.new_food ELSE fun.world.food

Eats ==
    CASE variant = "functional_simulation" -> fsim.accumulated_stats.food_eaten
      [] variant = "imperative_simulation" -> imp.step_stats.food_eaten
      [] OTHER -> fun.stats.eats

\* the transition is one animal's turn
FsimTurnStep ==
    /\ fsim.pc = "recursive_processor"
    /\ fsim'.pc = "recursive_processor"
    /\ fsim'.remaining_animals # fsim.remaining_animals

ImpTurnStep ==
    /\ imp.pc = "sim_step_imperative"
    /\ imp'.pc = "sim_step_imperative"
    /\ imp'.next = imp.next + 1

FunTurnStep ==
    /\ fun.pc = "for_animal"
    /\ fun'.pc = "for_animal"
    /\ fun'.next = fun.next + 1

TurnStep == FsimTurnStep \/ ImpTurnStep \/ FunTurnStep

\* the turn just taken ended with the mover on cell pos, having gained the
\* food bonus once on top of the turn's cost
MoverAteAt(pos) ==
    CASE variant = "functional_simulation" ->
             /\ fsim'.turn.branch = "food"
             /\ fsim'.turn.final_pos = pos
             /\ IsAnimal(DictGet(fsim'.accumulated_grid, pos))
             /\ DictGet(fsim'.accumulated_grid, pos).id = fsim'.turn.animal.id
             /\ fsim'.turn.updated_animal.energy = fsim'.turn.animal.energy - 2 + 5
      [] variant = "imperative_simulation" ->
             /\ imp'.turn.branch = "food"
             /\ imp'.grid[pos] = Ref(imp'.turn.a)
             /\ <<imp'.heap[imp'.turn.a].r, imp'.heap[imp'.turn.a].c>> = pos
             /\ imp'.turn.before_split = imp'.turn.animal.energy - 3 + 5
      [] OTHER ->
             /\ <<fun'.turn.moved_animal.x, fun'.turn.moved_animal.y>> = pos
             /\ fun'.turn.moved_animal.energy = fun'.turn.animal.energy - 1 + 4
             /\ fun'.turn.branch = "alive" =>
                   \E k \in 1 .. Len(fun'.new_animals) :
                       /\ fun'.new_animals[k] = fun'.turn.parent
                       /\ <<fun'.new_animals[k].x, fun'.new_animals[k].y>> = pos

\* the eat counter of a finished step against the food before and after it
\* (sim_step and step_world keep the grid / world they were called with)
EatsMatchFood ==
    /\ FsimStepEnd =>
          fsim.accumulated_stats.food_eaten =
              Cardinality({pos \in Cells : DictGet(fsim.current_grid, pos) = Food})
                  - Cardinality(FoodCells)
    /\ FunStepEnd =>
          fun.stats.eats = Cardinality(fun.world.food) - Cardinality(fun.new_food)

\* C12: food disappears only in a turn whose mover ends on the food cell with
\* the bonus gained once, one item per turn and eat count; outside spawn_food
\* nothing else touches the food, so a step's eat counter is the food before
\* minus the food after.
C12_FoodEatenOnce ==
    /\ [][ /\ TurnStep =>
                /\ FoodCells' \subseteq FoodCells
                /\ Cardinality(FoodCells \ FoodCells') <= 1
                /\ Eats' = Eats + Cardinality(FoodCells \ FoodCells')
                /\ \A pos \in FoodCells \ FoodCells' : MoverAteAt(pos)
           /\ ~TurnStep =>
                \/ FoodCells' = FoodCells
                \/ fun.pc = "run_simulation_functional" /\ FoodCells \subseteq FoodCells'
         ]_vars
    /\ []EatsMatchFood

\* a step in which two animals each ate a food item
C12_Witness ==
    /\ FsimTurn
    /\ fsim.turn.branch = "food"
    /\ fsim.accumulated_stats.food_eaten >= 2

\* an index one step outside 0 .. n - 1 re-enters on the opposite side
WrapIndex(i, n) == IF i < 0 THEN i + n ELSE IF i >= n THEN i - n ELSE i

Wrapped(pos, direction) ==
    <<WrapIndex(pos[1] + direction[1], ROWS), WrapIndex(pos[2] + direction[2], COLS)>>

\* the positions of the agents of the grid variants
AgentPositions ==
    CASE variant = "functional_simulation" ->
             {FsimGrid[k].pos : k \in {j \in 1 .. Len(FsimGrid) : IsAnimal(FsimGrid[j].val)}}
      [] variant = "imperative_simulation" ->
             {<<imp.heap[imp.grid[pos].ref].r, imp.heap[imp.grid[pos].ref].c>> :
                 pos \in AnimalCells(imp.grid)}
      [] OTHER -> {}

\* C13: move_safe of both grid variants is the toroidal wrap: for every cell
\* and each of the five directions the result is the wrapped cell and lies in
\* the grid, (0,0) moving (-1,0) gives (ROWS-1, 0); every destination a turn
\* computes is that cell, and no agent is ever outside the grid.
C13_MoveSafeWraps ==
    /\ \A pos \in Cells : \A k \in 1 .. Len(DIRECTIONS_WITH_STAY) :
          LET d == DIRECTIONS_WITH_STAY[k]
          IN  /\ move_safe(pos, d) = Wrapped(pos, d)
              /\ move_safe(pos, d) \in Cells
              /\ move_safe_rc(pos[1], pos[2], d[1], d[2]) = Wrapped(pos, d)
    /\ move_safe(<<0, 0>>, <<-1, 0>>) = <<ROWS - 1, 0>>
    /\ move_safe_rc(0, 0, -1, 0) = <<ROWS - 1, 0>>
    /\ (FsimTurn /\ fsim.turn.branch # "death") =>
          fsim.turn.new_pos = Wrapped(fsim.turn.pos, fsim.turn.direction)
    /\ (ImpTurn /\ imp.turn.branch \notin {"death", "moved"}) =>
          imp.turn.new_pos =
              Wrapped(<<imp.turn.animal.r, imp.turn.animal.c>>, imp.turn.direction)
    /\ AgentPositions \subseteq Cells

\* an agent at (0,0) drew (-1,0) and now stands on (ROWS-1, 0)
C13_Witness ==
    /\ FsimTurn
    /\ fsim.turn.pos = <<0, 0>>
    /\ fsim.turn.direction = <<-1, 0>>
    /\ fsim.turn.branch = "empty"
    /\ fsim.turn.final_pos = <<ROWS - 1, 0>>
    /\ <<ROWS - 1, 0>> \in AgentPositions

\* the contents of a dict grid without the insertion order
ItemsOf(grid) == {grid[k] : k \in 1 .. Len(grid)}

MarkerCells(grid, marker) == {pos \in Cells : DictGet(grid, pos) = marker}

\* C14: whatever order random.sample gives the cells, initialize_grid returns
\* a grid with the seed agents (ids 10, 20, 30, energy 10, age 0) on their
\* cells and exactly obstacle_count obstacles and food_count food items, all
\* on pairwise distinct cells, none of them a seed cell.
C14_InitializeGrid ==
    (variant = "initialize_grid" /\ fsim.pc = "initialized") =>
        /\ \A n \in 1 .. Min(NumSeeds, Len(SEEDS)) :
              DictGet(fsim.grid, SEEDS[n].pos) = Rabbit(SEEDS[n].id, 10, 0)
        /\ count_animals(fsim.grid) = Min(NumSeeds, Len(SEEDS))
        /\ Cardinality(MarkerCells(fsim.grid, Obstacle)) = ObstacleCount
        /\ Cardinality(MarkerCells(fsim.grid, Food)) = FoodCount
        /\ \A j, k \in 1 .. Len(fsim.grid) : j # k => fsim.grid[j].pos # fsim.grid[k].pos
        /\ Len(fsim.grid) = Min(NumSeeds, Len(SEEDS)) + ObstacleCount + FoodCount
        /\ \E grid \in InitialGrids : ItemsOf(grid) = ItemsOf(fsim.grid)

\* initialize_grid has returned although the shuffled list offered the seed
\* cells first
C14_Witness ==
    /\ variant = "initialize_grid"
    /\ fsim.pc = "initialized"
    /\ \A n \in 1 .. Min(NumSeeds, Len(SEEDS)) : SEEDS[n].pos \in fsim.consumed
    /\ fsim.consumed # Cells

\* the caller-level loop has returned / the loop stopped on an empty grid
Collapsed ==
    \/ fsim.pc = "collapsed"
    \/ imp.pc = "collapsed"
    \/ fun.pc = "all_dead"

Terminated ==
    \/ Collapsed
    \/ fsim.pc = "run_simulation" /\ fsim.steps = 0
    \/ imp.pc = "run_simulation_imperative" /\ imp.i >= imp.steps
    \/ fun.pc = "run_simulation_functional" /\ fun.step >= fun.steps

\* the steps executed stay within `steps`, and a loop that is about to run
\* another step has at least one agent left
WithinSteps ==
    /\ fsim.pc # "off" => fsim.steps >= 0
    /\ imp.pc # "off" => imp.i <= imp.steps
    /\ fun.pc # "off" => fun.step <= fun.steps
    /\ fsim.pc = "run_simulation" => AnimalsIn(fsim.current_grid) # << >>
    /\ imp.pc = "run_simulation_imperative" => AnimalCells(imp.grid) # {}
    /\ fun.pc = "run_simulation_functional" => Len(fun.world.animals) > 0

\* C15: each caller-level loop terminates: it never runs more than `steps`
\* steps, it ends, and once a step has left no agent nothing more is executed.
C15_LoopsTerminate ==
    /\ <>Terminated
    /\ []WithinSteps
    /\ [][~Collapsed /\ ~Terminated]_vars

\* the loop of the pure-functional variant stopped because every animal died
C15_Witness == fun.pc = "all_dead" /\ fun.step < fun.steps

Alive(animal) == animal.energy > 0 /\ animal.health > 0 /\ animal.age < MAX_AGE

\* C16: every animal of the world step_world returns, survivor or newborn,
\* has energy > 0, health > 0 and age < MAX_AGE, and the deaths counter of
\* the step counts exactly the input animals for which is_dead held after
\* move, eating and update_life.
C16_OnlyTheLivingRemain ==
    /\ [](fun.pc # "off" =>
            /\ \A k \in 1 .. Len(fun.new_animals) : Alive(fun.new_animals[k])
            /\ \A k \in 1 .. Len(fun.world.animals) : Alive(fun.world.animals[k])
            /\ FunTurn =>
                  /\ fun.turn.life_animal = update_life(fun.turn.moved_animal)
                  /\ fun.turn.branch = "death" <=> ~Alive(fun.turn.life_animal)
            /\ FunStepEnd =>
                  fun.stats.deaths =
                      Len(fun.world.animals) - Survivors(FunAges(fun.new_animals)))
    /\ [][FunTurnStep =>
            fun'.stats.deaths =
                fun.stats.deaths + (IF is_dead(fun'.turn.life_animal) THEN 1 ELSE 0)]_vars

\* a step ends in which one animal died of its health or its age, not of
\* starvation, and another one lives on
C16_Witness ==
    /\ FunStepEnd
    /\ fun.stats.deaths >= 1
    /\ fun.new_animals # << >>
    /\ fun.turn.branch = "death"
    /\ fun.turn.life_animal.energy > 0

\* the tick-start grid offers cell pos to a mover: it is empty or holds food
FreeAtTickStart(pos) ==
    ~HasKey(fsim.current_grid, pos) \/ DictGet(fsim.current_grid, pos) = Food

\* turns j and k of the call under way, j before k, are turns of agents with
\* different ids that both drew a move onto the same cell
Contest(j, k) ==
    /\ j < k
    /\ fsim.turns[j].branch # "death"
    /\ fsim.turns[k].branch # "death"
    /\ fsim.turns[j].id # fsim.turns[k].id
    /\ fsim.turns[j].new_pos = fsim.turns[k].new_pos
    /\ FreeAtTickStart(fsim.turns[j].new_pos)

\* sim_step processes the turns in ascending id order, each on the grid the
\* earlier turns have left
AscendingTurns ==
    fsim.pc = "recursive_processor" =>
        /\ \A j, k \in 1 .. Len(fsim.turns) : j < k => fsim.turns[j].id <= fsim.turns[k].id
        /\ \A j \in 1 .. Len(fsim.turns) : \A k \in 1 .. Len(fsim.remaining_animals) :
              fsim.turns[j].id <= fsim.remaining_animals[k].val.id
        /\ FsimTurn => DictGet(fsim.turn.grid, fsim.turn.pos) = fsim.turn.animal

\* the later turn of a contest found the cell taken
LaterTurnConflicts(k) ==
    /\ fsim.turns[k].branch = "conflict"
    /\ fsim.turns[k].final_pos = fsim.turns[k].pos

\* C17 as stated: turns run in ascending id order on the updated grid, and of
\* two agents that both draw a move onto the same cell, empty or food at
\* tick start, the smaller id occupies it and the other's turn is a conflict
\* without a move.
C17_Original ==
    /\ AscendingTurns
    /\ fsim.pc = "recursive_processor" =>
          \A j, k \in 1 .. Len(fsim.turns) :
              Contest(j, k) =>
                  /\ fsim.turns[j].id < fsim.turns[k].id
                  /\ fsim.turns[j].branch \in {"empty", "food"}
                  /\ fsim.turns[j].final_pos = fsim.turns[j].new_pos
                  /\ LaterTurnConflicts(k)

\* C17 amended: turns run in ascending id order on the updated grid, and of
\* two agents that both draw a move onto the same cell, the smaller id
\* occupies it (and eats the food) provided the cell is still empty or food
\* when its turn comes; whoever holds the cell by then, the other agent's
\* turn is a conflict without a move.
C17_Amended ==
    /\ AscendingTurns
    /\ fsim.pc = "recursive_processor" =>
          \A j, k \in 1 .. Len(fsim.turns) :
              Contest(j, k) =>
                  /\ fsim.turns[j].id < fsim.turns[k].id
                  /\ fsim.turns[j].branch \in {"empty", "food", "conflict"}
                  /\ fsim.turns[j].branch \in {"empty", "food"} =>
                        fsim.turns[j].final_pos = fsim.turns[j].new_pos
                  /\ LaterTurnConflicts(k)

\* two agents drew the same food cell; the smaller id ate, the other one
\* stayed where it was
C17_Witness ==
    /\ fsim.pc = "recursive_processor"
    /\ \E j, k \in 1 .. Len(fsim.turns) :
          /\ Contest(j, k)
          /\ fsim.turns[j].branch = "food"
          /\ fsim.turns[k].branch = "conflict"

\* the turn just processed by recursive_processor had an obstacle or another
\* agent as its destination
FsimBlocked ==
    /\ FsimTurn
    /\ fsim.turn.branch # "death"
    /\ \/ fsim.turn.target_content = Obstacle
       \/ IsAnimal(fsim.turn.target_content) /\ fsim.turn.new_pos # fsim.turn.pos

\* the mover's record after a blocked turn without reproduction: same cell,
\* one turn older, cost 2 and penalty 1 paid
FsimBlockedMover ==
    [fsim.turn.animal EXCEPT !.energy = @ - 2 - 1, !.age = @ + 1]

FsimBlockedStats ==
    IF fsim.turn.target_content = Obstacle
    THEN [ZeroStats EXCEPT !.obstacle_encounters = 1]
    ELSE [ZeroStats EXCEPT !.conflicts = 1]

\* the grid after the turn is the grid before it with the mover's record
\* replaced by `mover` and the items `added`
FsimGridChangedOnly(mover, added) ==
    ItemsOf(fsim.accumulated_grid) =
        ((ItemsOf(fsim.turn.grid) \ {Item(fsim.turn.pos, fsim.turn.animal)})
            \cup {Item(fsim.turn.pos, mover)}) \cup added

\* the transition is a call of process_turn_imperative whose destination held
\* an obstacle or another Animal object (with another id, when ids_differ)
ImpBlockedStep(ids_differ) ==
    /\ ImpTurnStep
    /\ imp'.turn.branch \notin {"death", "moved"}
    /\ \/ imp'.turn.target_cell = Obstacle
       \/ /\ IsAnimalRef(imp'.turn.target_cell)
          /\ imp'.turn.target_cell.ref # imp'.turn.a
          /\ ids_differ =>
                imp.heap[imp'.turn.target_cell.ref].id # imp'.turn.animal.id

\* such a call changes the mover's energy (cost 3, penalty 1 or 2) and age and
\* one counter, nothing else
ImpOnlyMoverChanged ==
    LET a == imp'.turn.a
        hit == imp'.turn.target_cell = Obstacle
    IN  /\ imp'.grid = imp.grid
        /\ imp'.heap = [imp.heap EXCEPT
                          ![a].energy = @ - 3 - (IF hit THEN 1 ELSE 2),
                          ![a].age = @ + 1]
        /\ imp'.step_stats =
              IF hit THEN [imp.step_stats EXCEPT !.obstacle_encounters = @ + 1]
              ELSE [imp.step_stats EXCEPT !.conflicts = @ + 1]

FsimPendingTurn(direction, baby_id) ==
    pure_process_animal_turn(fsim.accumulated_grid,
                             Head(fsim.remaining_animals).pos,
                             Head(fsim.remaining_animals).val,
                             direction, TRUE, baby_id)

FsimTurnPending ==
    /\ variant = "functional_simulation"
    /\ fsim.pc = "recursive_processor"
    /\ fsim.remaining_animals # << >>
    /\ SameAnimalAt(fsim.accumulated_grid, Head(fsim.remaining_animals).pos,
                    Head(fsim.remaining_animals).val)

\* the turn the imperative variant is about to process, with the gate passing
ImpPendingTurn(direction, new_id) ==
    process_turn_imperative(imp.grid, imp.heap, imp.animals_to_process[imp.next],
                            imp.step_stats, direction, TRUE, new_id)

ImpTurnPending ==
    /\ variant = "imperative_simulation"
    /\ imp.pc = "sim_step_imperative"
    /\ imp.next <= Len(imp.animals_to_process)

\* a blocked turn of the dict grid that meets the conditions of reproduction
FsimBlockedFertile(t) ==
    /\ t.branch \in {"obstacle", "conflict"}
    /\ t.updated_animal.energy > 5
    /\ t.updated_animal.age > 2
    /\ find_first_empty(generate_neighbors(t.pos), fsim.accumulated_grid, 1) # None

\* a blocked turn of the imperative grid that meets the conditions of
\* reproduction
ImpBlockedFertile(t) ==
    /\ t.branch \in {"obstacle", "conflict"}
    /\ t.before_split > 5
    /\ t.animal.age + 1 > 2
    /\ first_none_neighbor(imp.grid, t.animal.r, t.animal.c, 1) # None

\* C19: in process_turn_imperative and in pure_process_animal_turn alike, an
\* agent blocked by an obstacle or by a conflict is still evaluated for
\* reproduction in that turn: with energy above the threshold, age above
\* maturity, the gate passing and an empty neighbour, it has a child.
C19_BlockedStillReproduces ==
    /\ FsimTurnPending =>
          \A direction \in {DIRECTIONS_WITH_STAY[i] : i \in 1 .. 5}, baby_id \in BabyIds :
              FsimBlockedFertile(FsimPendingTurn(direction, baby_id))
                  => FsimPendingTurn(direction, baby_id).baby # None
    /\ ImpTurnPending =>
          \A direction \in {DIRECTIONS_WITH_STAY[i] : i \in 1 .. 5}, new_id \in NewIds :
              ImpBlockedFertile(ImpPendingTurn(direction, new_id))
                  => ImpPendingTurn(direction, new_id).baby # None

\* the cells of the dict grid that hold a child born in the tick under way:
\* the animals that are neither where a turn of this tick left its mover nor
\* where an animal still waits for its turn
FsimNewbornCells ==
    {item.pos : item \in {it \in ItemsOf(fsim.accumulated_grid) : IsAnimal(it.val)}}
        \ ({fsim.turns[k].final_pos : k \in 1 .. Len(fsim.turns)}
            \cup {fsim.remaining_animals[k].pos : k \in 1 .. Len(fsim.remaining_animals)})

\* the cells of the imperative grid that hold an Animal object created in the
\* tick under way, i.e. one that is not in animals_to_process
ImpNewbornCells ==
    {pos \in Cells :
        /\ IsAnimalRef(imp.grid[pos])
        /\ \A k \in 1 .. Len(imp.animals_to_process) :
              imp.animals_to_process[k] # imp.grid[pos].ref}

\* a turn of the dict grid after a birth of the same tick: the newborns stay as
\* they are, a mover that targets one of them has a conflict, and a child of
\* this turn is placed elsewhere
FsimNewbornsRespected ==
    LET t == fsim'.turn
    IN  /\ \A pos \in FsimNewbornCells :
              DictGet(fsim'.accumulated_grid, pos) = DictGet(fsim.accumulated_grid, pos)
        /\ (t.branch \notin {"skipped", "death"} /\ t.new_pos \in FsimNewbornCells) =>
              /\ t.branch = "conflict"
              /\ t.final_pos = t.pos
              /\ t.updated_animal.energy = t.animal.energy - 2 - 1
              /\ t.turn_stats.conflicts = 1
        /\ (t.branch \notin {"skipped", "death"} /\ t.baby # None) =>
              t.empty_spot.pos \notin FsimNewbornCells

\* the same for a call of process_turn_imperative
ImpNewbornsRespected ==
    LET t == imp'.turn
    IN  /\ \A pos \in ImpNewbornCells :
              /\ imp'.grid[pos] = imp.grid[pos]
              /\ imp'.heap[imp.grid[pos].ref] = imp.heap[imp.grid[pos].ref]
        /\ (t.branch \notin {"moved", "death"} /\ t.new_pos \in ImpNewbornCells) =>
              /\ t.branch = "conflict"
              /\ imp'.heap[t.a].r = t.animal.r /\ imp'.heap[t.a].c = t.animal.c
              /\ imp'.heap[t.a].energy = t.animal.energy - 3 - 2
              /\ imp'.step_stats.conflicts = imp.step_stats.conflicts + 1

\* C20: in the grid variants a child occupies its cell from its creation: a
\* later mover of the same tick that targets the cell has a conflict (no move,
\* penalty, conflicts + 1) and does not overwrite the child, and no later
\* reproduction of the tick places a child on that cell.
C20_NewbornsCollidable ==
    [][/\ FsimTurnStep => FsimNewbornsRespected
       /\ ImpTurnStep => ImpNewbornsRespected]_vars

\* the four neighbour cells of the dict grid all hold something
FsimNoEmptyNeighbor(grid, pos) ==
    \A k \in 1 .. Len(DIRECTIONS) : HasKey(grid, generate_neighbors(pos)[k])

\* the four neighbour cells of the imperative grid all hold something
ImpNoEmptyNeighbor(grid, r, c) ==
    \A k \in 1 .. Len(NEIGHBORS) :
        grid[move_safe_rc(r, c, NEIGHBORS[k][1], NEIGHBORS[k][2])] # None

\* the animals of the world that step_world has not processed yet
FunWaiting ==
    {<<fun.world.animals[k].x, fun.world.animals[k].y>> :
        k \in (fun.next + 1) .. Len(fun.world.animals)}

\* every neighbour cell of (x, y) inside the world holds an animal, food or an
\* obstacle
FunNoEmptyNeighbor(x, y, new_food, new_animals) ==
    \A k \in 1 .. Len(DIRECTIONS) :
        LET nx == x + DIRECTIONS[k][1]
            ny == y + DIRECTIONS[k][2]
        IN  InWorld(nx, ny) =>
                <<nx, ny>> \in PositionsOf(new_animals) \cup FunWaiting
                                  \cup new_food \cup fun.world.obstacles

\* a turn of the functional variant is about to be taken
FunTurnPending ==
    /\ variant = "functional"
    /\ fun.pc = "for_animal"
    /\ fun.next <= Len(fun.world.animals)

FunPendingTurns ==
    LET animal == fun.world.animals[fun.next]
    IN  {step_animal(animal, move_animal(animal, fun.world.obstacles, md),
                     fun.new_food, fun.new_animals, fun.stats,
                     fun.world.obstacles, d) : md \in Shuffles, d \in Shuffles}

\* dict grid: with the conditions of reproduction met and no empty neighbour,
\* the turn gives what it gives when the gate fails
C21_Fsim ==
    FsimTurnPending =>
        \A direction \in {DIRECTIONS_WITH_STAY[i] : i \in 1 .. 5}, baby_id \in BabyIds :
            LET t == FsimPendingTurn(direction, baby_id)
                f == pure_process_animal_turn(fsim.accumulated_grid, t.pos, t.animal,
                                              direction, FALSE, baby_id)
            IN  (t.gate = "pass" /\ FsimNoEmptyNeighbor(f.final_grid, t.final_pos)) =>
                    /\ t.baby = None
                    /\ t.parent = t.updated_animal
                    /\ t.turn_stats.births = 0
                    /\ t.final_grid = f.final_grid
                    /\ t.turn_stats = f.turn_stats

\* imperative grid: the same
C21_Imp ==
    ImpTurnPending =>
        \A direction \in {DIRECTIONS_WITH_STAY[i] : i \in 1 .. 5}, new_id \in NewIds :
            LET t == ImpPendingTurn(direction, new_id)
                f == process_turn_imperative(imp.grid, imp.heap,
                                             imp.animals_to_process[imp.next],
                                             imp.step_stats, direction, FALSE, new_id)
            IN  (/\ t.branch \in {"food", "empty", "stay"}
                 /\ t.before_split > 5
                 /\ t.animal.age + 1 > 2
                 /\ ImpNoEmptyNeighbor(f.grid, f.heap[t.a].r, f.heap[t.a].c)) =>
                    /\ t.baby = None
                    /\ t.grid = f.grid
                    /\ t.heap = f.heap
                    /\ t.step_stats = f.step_stats

\* functional variant: with energy at REPRODUCTION_ENERGY and no empty
\* neighbour the parent is appended as update_life returned it
C21_Fun ==
    FunTurnPending =>
        \A t \in FunPendingTurns :
            (/\ t.branch = "alive"
             /\ t.life_animal.energy >= REPRODUCTION_ENERGY
             /\ FunNoEmptyNeighbor(t.life_animal.x, t.life_animal.y,
                                   t.new_food, fun.new_animals)) =>
                /\ t.child = None
                /\ t.parent = t.life_animal
                /\ t.stats.births = fun.stats.births
                /\ t.new_animals = Append(fun.new_animals, t.life_animal)

\* C21: in all three variants an agent that passes the conditions of
\* reproduction while none of its neighbour cells is empty does not reproduce:
\* no agent is created, the parent keeps its energy, births stays, and the rest
\* of the turn is what it is without reproduction.
C21_NoEmptyNeighborNoBirth == C21_Fsim /\ C21_Imp /\ C21_Fun

\* the health the rule of update_life prescribes for an animal of the given
\* health and energy that reaches age new_age
HealthRule(health, energy, new_age) ==
    LET decays == (IF new_age % 8 = 0 THEN 1 ELSE 0) + (IF energy <= 1 THEN 2 ELSE 0)
        h == IF energy >= 8 /\ health - decays < INITIAL_HEALTH
             THEN health - decays + 1 ELSE health - decays
    IN  Min(INITIAL_HEALTH, IF h < 0 THEN 0 ELSE h)

\* after is what the rule makes of before
LifeUpdated(before, after) ==
    /\ after.age = before.age + 1
    /\ after.health = HealthRule(before.health, before.energy, before.age + 1)
    /\ after.x = before.x /\ after.y = before.y
    /\ after.energy = before.energy

HealthInRange(animals) ==
    \A k \in 1 .. Len(animals) :
        animals[k].health >= 0 /\ animals[k].health <= INITIAL_HEALTH

\* C22: update_life returns the animal one tick older with the health of the
\* rule (decay at every 8th age, starvation penalty, recovery when well fed,
\* clamped to 0 .. INITIAL_HEALTH), position and energy as they were; every
\* animal of every reachable world has its health in 0 .. INITIAL_HEALTH.
C22_UpdateLife ==
    /\ (variant = "update_life" /\ fun.pc = "update_life_returned") =>
          /\ LifeUpdated(fun.animal, fun.life_animal)
          /\ fun.life_animal.health \in 0 .. INITIAL_HEALTH
    /\ (variant = "functional" /\ FunTurn) =>
          LifeUpdated(fun.turn.moved_animal, fun.turn.life_animal)
    /\ variant = "functional" =>
          HealthInRange(fun.world.animals) /\ HealthInRange(fun.new_animals)

\* a starving animal of health 2 reaches age 8: the three points of decay are
\* clamped to health 0
C22_Witness ==
    /\ variant = "update_life"
    /\ fun.pc = "update_life_returned"
    /\ fun.animal.age = 7 /\ fun.animal.energy = 1 /\ fun.animal.health = 2
    /\ fun.life_animal.health = 0

\* the cells of the imperative grid that hold the marker
MarkedCells(grid, marker) == {pos \in Cells : grid[pos] = marker}

\* the seed animals are where initialize_grid put them
SeedsInPlace ==
    \A n \in 1 .. Len(SeedHeap) :
        /\ imp.grid[SEEDS[n].pos] = Ref(n)
        /\ imp.heap[n] = SeedHeap[n]

\* C23: the grid initialize_grid (imperative) returns holds exactly the
\* configured number of obstacles and of food items, and the seed animals at
\* their cells.
C23_FixedCounts ==
    (variant = "initialize_grid_imperative" /\ imp.pc = "initialized") =>
        /\ Cardinality(MarkedCells(imp.grid, Obstacle)) = ObstacleCount
        /\ Cardinality(MarkedCells(imp.grid, Food)) = FoodCount
        /\ SeedsInPlace

\* C24: in every world run_simulation_functional reaches from empty_world()
\* by spawn_food and step_world, every animal is inside the grid, none stands
\* on an obstacle or on a cell of the food set, and food and obstacles are
\* disjoint.
C24_WorldWellFormed ==
    variant = "functional" =>
        /\ \A k \in 1 .. Len(fun.world.animals) :
              /\ 0 <= fun.world.animals[k].x /\ fun.world.animals[k].x < GRID_SIZE
              /\ 0 <= fun.world.animals[k].y /\ fun.world.animals[k].y < GRID_SIZE
        /\ PositionsOf(fun.world.animals) \cap fun.world.obstacles = {}
        /\ PositionsOf(fun.world.animals) \cap fun.world.food = {}
        /\ fun.world.food \cap fun.world.obstacles = {}

\* a world returned by step_world after a birth, with food and an obstacle
C24_Witness ==
    /\ variant = "functional"
    /\ fun.pc = "run_simulation_functional"
    /\ fun.step >= 2
    /\ Len(fun.world.animals) > INITIAL_ANIMALS
    /\ fun.world.food # {}
    /\ fun.world.obstacles # {}

\* what a cell can still feed turns with: an animal counts its positive energy
\* and one for the turn in which it dies, food its bonus
Worth(is_animal, energy, is_food) ==
    IF is_animal THEN (IF energy > 0 THEN energy ELSE 0) + 1
    ELSE IF is_food THEN 5 ELSE 0

\* the sum over the items of the dict grid, from item k on
RECURSIVE FsimReserve(_, _)
FsimReserve(grid, k) ==
    IF k > Len(grid) THEN 0
    ELSE Worth(IsAnimal(grid[k].val),
               IF IsAnimal(grid[k].val) THEN grid[k].val.energy ELSE 0,
               grid[k].val = Food)
         + FsimReserve(grid, k + 1)

\* the sum over the cells of the imperative grid, from row-major rank k on
RECURSIVE ImpReserve(_, _, _)
ImpReserve(grid, heap, k) ==
    IF k >= ROWS * COLS THEN 0
    ELSE LET cell == grid[<<k \div COLS, k % COLS>>]
         IN  Worth(IsAnimalRef(cell),
                   IF IsAnimalRef(cell) THEN heap[cell.ref].energy ELSE 0,
                   cell = Food)
             + ImpReserve(grid, heap, k + 1)

\* the loops never stop for want of steps while an animal is left
NeverOutOfSteps ==
    /\ ~(fsim.pc = "run_simulation" /\ fsim.steps = 0)
    /\ ~(imp.pc = "run_simulation_imperative" /\ imp.i >= imp.steps)

\* a living animal's turn costs at least the metabolic cost, and a
\* reproduction does not raise the energy of parent and child together
FsimTurnCosts ==
    (FsimTurn /\ fsim.turn.branch # "death") =>
        /\ fsim.turn.updated_animal.energy <=
              fsim.turn.animal.energy - 2
                  + (IF fsim.turn.turn_stats.food_eaten = 1 THEN 5 ELSE 0)
        /\ fsim.turn.baby # None =>
              fsim.turn.parent.energy + fsim.turn.baby.energy
                  <= fsim.turn.updated_animal.energy

ImpTurnCosts ==
    (ImpTurn /\ imp.turn.branch \notin {"death", "moved"}) =>
        /\ imp.turn.before_split <=
              imp.turn.animal.energy - 3
                  + (IF imp.turn.branch = "food" THEN 5 ELSE 0)
        /\ imp.turn.baby # None =>
              imp.heap[imp.turn.a].energy + imp.heap[imp.turn.baby.ref].energy
                  <= imp.turn.before_split

\* the number of food items of a dict grid / of the imperative grid
FsimFood(grid) == Cardinality({k \in 1 .. Len(grid) : grid[k].val = Food})

ImpFood(grid) == Cardinality({pos \in Cells : grid[pos] = Food})

\* a turn of the dict grid leaves less reserve and no more food than the grid
\* it was given
FsimTurnDrains ==
    FsimTurn =>
        /\ FsimReserve(fsim.accumulated_grid, 1) < FsimReserve(fsim.turn.grid, 1)
        /\ FsimFood(fsim.accumulated_grid) <= FsimFood(fsim.turn.grid)

\* between the turns the dict grid is handed on as it is
FsimHandsOn ==
    (variant = "functional_simulation" /\ ~FsimTurnStep) =>
        /\ FsimReserve(FsimGrid', 1) = FsimReserve(FsimGrid, 1)
        /\ FsimFood(FsimGrid') = FsimFood(FsimGrid)

\* a call of process_turn_imperative lowers the reserve and does not add
\* food; no other step changes either
ImpDrains ==
    variant = "imperative_simulation" =>
        /\ ImpFood(imp'.grid) <= ImpFood(imp.grid)
        /\ IF ImpTurnStep /\ imp'.turn.branch # "moved"
           THEN ImpReserve(imp'.grid, imp'.heap, 0) < ImpReserve(imp.grid, imp.heap, 0)
           ELSE ImpReserve(imp'.grid, imp'.heap, 0) = ImpReserve(imp.grid, imp.heap, 0)

\* C25: in the grid variants the number of food cells never grows, every turn
\* of a living animal costs at least the metabolic cost, a reproduction never
\* raises the summed energy of parent and child, every turn lowers the
\* reserve of the grid, and a run without a step limit ends with no animal.
C25_GridsRunDry ==
    /\ [][FsimHandsOn /\ ImpDrains]_vars
    /\ [](FsimTurnDrains /\ FsimTurnCosts /\ ImpTurnCosts /\ NeverOutOfSteps)

\* a run of a grid variant has ended with no animal and no food left, after
\* more steps than an animal lives without eating
C25_Witness ==
    \/ /\ fsim.pc = "collapsed"
       /\ FoodCells = {}
       /\ fsim.steps <= DrainSteps - 7
    \/ /\ imp.pc = "collapsed"
       /\ FoodCells = {}
       /\ imp.i >= 6

\* the world empty_world returns: INITIAL_ANIMALS fresh animals on distinct
\* cells that are not obstacles, no food
EmptyWorldWellFormed ==
    (variant = "empty_world" /\ fun.pc = "empty_world_returned") =>
        /\ Len(fun.animals) = INITIAL_ANIMALS
        /\ \A j, k \in 1 .. Len(fun.animals) :
              j # k => <<fun.animals[j].x, fun.animals[j].y>>
                          # <<fun.animals[k].x, fun.animals[k].y>>
        /\ PositionsOf(fun.animals) \cap fun.obstacles = {}
        /\ fun.food = {}

\* C26: empty_world() terminates whatever random_obstacles() returns, with
\* exactly INITIAL_ANIMALS animals on pairwise distinct cells that are not
\* obstacles and with no food.
C26_EmptyWorldTerminates ==
    /\ <>(fun.pc = "empty_world_returned")
    /\ []EmptyWorldWellFormed

====
